---- MODULE Spec2Model ----
(***************************************************************************)
(* A model of the Particle-Doodle renderer: the swapchain manager          *)
(* (display/mod.rs, display/swapchain.rs), the device's queues             *)
(* (display/device.rs, display/device/queue_family_indices.rs), the frame  *)
(* driver                                                                  *)
(* (application.rs, main.rs) and the particle stages                       *)
(* (application/particles.rs, application/particles/pipeline.rs).          *)
(*                                                                         *)
(* Every fallible call of the presentation backend, the device or the     *)
(* window system is an input of the action that makes it: the action       *)
(* draws the call's outcome from the outcomes that call can have.         *)
(* Objects built by the program (swapchains, render passes, framebuffers,  *)
(* pipelines, buffers, descriptor sets) are records that carry the        *)
(* identity of what they were built from.                                  *)
(***************************************************************************)
EXTENDS Integers, Sequences, FiniteSets, TLC

\* ------------------------------------------------------------- bounds
\* Window and surface sizes range over 0..MaxDim on each axis.
MaxDim == 3
\* The presentation backend hands out at most MaxImages images.
MaxImages == 3
\* At most MaxRebuilds swapchains are built in one run: the one of
\* Display::create and those of the rebuild_swapchain calls.
MaxRebuilds == 3
\* At most MaxParticleBuilds calls of Particles::new, reset_vertices and
\* rebuild_swapchain_resources in one run.
MaxParticleBuilds == 3

\* The compute dispatches, or the integrate calls, made on one particle.
MaxTicks == 2

\* The largest denominator of a coordinate that is stepped further.
MaxDenominator == 100

\* The largest denominator of a velocity whose magnitude is compared by
\* its dot product.
MaxMeasured == 2500

\* The largest integers whose sum of squares is searched for a root.
MaxRoot == 200

\* The rebuilds of the particle stage that are followed through resizes.
MaxResizes == 3

\* The queue families of a physical device.
MaxFamilies == 3

\* The queues of one family, where queues are drawn on their own.
MaxQueues == 2

\* ------------------------------------------------------------- values
None == <<>>
Some(x) == <<x>>
IsSome(o) == Len(o) = 1
Unwrap(o) == o[1]

Min(a, b) == IF a <= b THEN a ELSE b
Max(a, b) == IF a >= b THEN a ELSE b

\* The surface supports extents MinExtent..MaxExtent on each axis, so that
\* window sizes below (0: a minimised window) and above the range exist.
MinExtent == <<1, 1>>
MaxExtent == <<MaxDim - 1, MaxDim - 1>>

\* The sizes the window takes: every supported extent, a minimised window
\* (zero width and height, or zero width alone) and one too large.
Sizes ==
    ((MinExtent[1]..MaxExtent[1]) \X (MinExtent[2]..MaxExtent[2]))
        \cup {<<0, 0>>, <<0, 1>>, <<MaxDim, MaxDim>>}

\* The surface capabilities a run may see.  current_extent is added by
\* Capabilities below, because it follows the window.
SurfaceKinds ==
    [min_image_count : 1..(MaxImages - 1),
     max_image_count : {None, Some(MaxImages - 1)},
     reports_extent : BOOLEAN]

\* ------------------------------------------- display/swapchain.rs

\* fn clamp(x, lower, upper) = max(lower, min(x, upper))
clamp(x, lower, upper) == Max(lower, Min(x, upper))

\* A mutant of choose_swap_extent: the window's size is not clamped.
choose_swap_extent_unclamped(physical_size, capabilities) ==
    IF IsSome(capabilities.current_extent)
    THEN Unwrap(capabilities.current_extent)
    ELSE physical_size

\* choose_swap_extent: the surface's current extent when it reports one,
\* otherwise the window's physical size clamped per axis.
choose_swap_extent(physical_size, capabilities) ==
    IF IsSome(capabilities.current_extent)
    THEN Unwrap(capabilities.current_extent)
    ELSE <<clamp(physical_size[1],
                 capabilities.min_image_extent[1],
                 capabilities.max_image_extent[1]),
           clamp(physical_size[2],
                 capabilities.min_image_extent[2],
                 capabilities.max_image_extent[2])>>

\* A mutant of choose_image_count: the maximum is ignored.
choose_image_count_uncapped(capabilities) == capabilities.min_image_count + 1

\* choose_image_count: min_image_count + 1, capped by the maximum if any.
choose_image_count(capabilities) ==
    LET suggested_count == capabilities.min_image_count + 1
    IN  IF IsSome(capabilities.max_image_count)
        THEN Min(suggested_count, Unwrap(capabilities.max_image_count))
        ELSE suggested_count

\* SharingMode::Exclusive, and SharingMode::Concurrent(ids), whose vector
\* the backend reads as queue family ids.
Exclusive == [mode |-> "Exclusive", queue_families |-> <<>>]

Concurrent(ids) == [mode |-> "Concurrent", queue_families |-> ids]

\* choose_sharing_mode: the two queues' ids within their families are
\* compared, and listed when they differ.
choose_sharing_mode(graphics_queue, present_queue) ==
    LET same_queue ==
            graphics_queue.id_within_family = present_queue.id_within_family
    IN  IF same_queue
        THEN Exclusive
        ELSE Concurrent(<<graphics_queue.id_within_family,
                          present_queue.id_within_family>>)

\* ------------------------- display/device/queue_family_indices.rs

\* A physical device: its queue families in order, numbered from 0, each
\* with what it supports (presentation to the surface included).
PhysicalDevices ==
    [1..MaxFamilies -> [supports_graphics : BOOLEAN, supports_present : BOOLEAN,
                        supports_compute : BOOLEAN]]

\* The loop of QueueFamilyIndices::find from family i on: each role takes
\* the latest family that supports it, and the loop breaks once the three
\* roles are filled.
RECURSIVE find_from(_, _, _, _, _)
find_from(device, i, graphics, present, compute) ==
    IF i >= Len(device)
    THEN [graphics |-> graphics, present |-> present, compute |-> compute]
    ELSE LET family == device[i + 1]
             g == IF family.supports_graphics THEN Some(i) ELSE graphics
             p == IF family.supports_present THEN Some(i) ELSE present
             c == IF family.supports_compute THEN Some(i) ELSE compute
         IN  IF IsSome(g) /\ IsSome(p) /\ IsSome(c)
             THEN [graphics |-> g, present |-> p, compute |-> c]
             ELSE find_from(device, i + 1, g, p, c)

\* QueueFamilyIndices::find: "Err" unless every role found a family.
find(device) ==
    LET found == find_from(device, 0, None, None, None)
    IN  IF IsSome(found.graphics) /\ IsSome(found.present) /\ IsSome(found.compute)
        THEN [result |-> "Ok",
              self |-> [graphics_family |-> Unwrap(found.graphics),
                        present_family |-> Unwrap(found.present),
                        compute_family |-> Unwrap(found.compute)]]
        ELSE [result |-> "Err",
              self |-> [graphics_family |-> 0, present_family |-> 0,
                        compute_family |-> 0]]

\* unique_indices: graphics, then present and compute unless already there.
unique_indices(self) ==
    LET first == <<self.graphics_family>>
        second == IF self.present_family = self.graphics_family
                  THEN first ELSE Append(first, self.present_family)
    IN  IF \E k \in 1..Len(second) : second[k] = self.compute_family
        THEN second ELSE Append(second, self.compute_family)

is_same_queue(self) == self.graphics_family = self.present_family

NoQueue == [family |-> -1, id_within_family |-> -1]

\* take_queues: the graphics queue is the first of the iterator, the
\* present queue is the same queue when the two families are the same and
\* the next one otherwise, the compute queue is the next one, or else the
\* graphics or the present queue if its family supports compute.
take_queues(self, queues, device) ==
    LET graphics_queue == IF queues = <<>> THEN NoQueue ELSE Head(queues)
        after_graphics == IF queues = <<>> THEN <<>> ELSE Tail(queues)
        present_queue == IF is_same_queue(self) THEN graphics_queue
                         ELSE IF after_graphics = <<>> THEN NoQueue
                         ELSE Head(after_graphics)
        after_present == IF is_same_queue(self) \/ after_graphics = <<>>
                         THEN after_graphics ELSE Tail(after_graphics)
        compute_queue ==
            IF graphics_queue = NoQueue \/ present_queue = NoQueue THEN NoQueue
            ELSE IF after_present /= <<>> THEN Head(after_present)
            ELSE IF device[graphics_queue.family + 1].supports_compute
            THEN graphics_queue
            ELSE IF device[present_queue.family + 1].supports_compute
            THEN present_queue
            ELSE NoQueue
    IN  IF graphics_queue = NoQueue \/ present_queue = NoQueue
           \/ compute_queue = NoQueue
        THEN [result |-> "Err", graphics_queue |-> NoQueue,
              present_queue |-> NoQueue, compute_queue |-> NoQueue]
        ELSE [result |-> "Ok", graphics_queue |-> graphics_queue,
              present_queue |-> present_queue, compute_queue |-> compute_queue]

\* ------------------------------------------------ display/device.rs

\* Device::new(physical_device, .., families): one queue is requested for
\* each of the unique families, so each queue is the first of its family;
\* the queues come in the order of the request.
device_queues(families) ==
    [k \in 1..Len(families) |-> [family |-> families[k], id_within_family |-> 0]]

\* create_logical_device from the indices on: the queues of the new device
\* are handed to take_queues.
create_logical_device(device) ==
    LET indices == find(device)
    IN  IF indices.result = "Err"
        THEN [result |-> "Err", graphics_queue |-> NoQueue,
              present_queue |-> NoQueue, compute_queue |-> NoQueue]
        ELSE take_queues(indices.self, device_queues(unique_indices(indices.self)),
                         device)

\* ------------------------------------------- display/swapchain.rs

\* What surface.capabilities() returns for a surface of kind k whose window
\* has size `size`.
Capabilities(k, size) ==
    [min_image_count |-> k.min_image_count,
     max_image_count |-> k.max_image_count,
     current_extent |-> IF k.reports_extent THEN Some(size) ELSE None,
     min_image_extent |-> MinExtent,
     max_image_extent |-> MaxExtent]

\* The backend's check of the requested dimensions (Swapchain::new and
\* recreate_with_dimensions refuse dimensions outside the surface's range).
SupportedDimensions(d) ==
    /\ MinExtent[1] <= d[1] /\ d[1] <= MaxExtent[1]
    /\ MinExtent[2] <= d[2] /\ d[2] <= MaxExtent[2]

\* The swapchain and the images the backend returns for a successful
\* creation: `count` images, numbered from 0, all owned by swapchain `id`.
NewSwapchain(id, dimensions, count) ==
    [swapchain |-> [id |-> id, dimensions |-> dimensions, num_images |-> count],
     images |-> [i \in 1..count |->
                    [swapchain |-> id, index |-> i - 1, dimensions |-> dimensions]]]

\* create_render_pass: a fresh render pass; `id` is its identity.
create_render_pass(id) == [id |-> id]

\* A mutant of create_framebuffers: the first image gets no framebuffer.
create_framebuffers_skip_first(swapchain_images, render_pass) ==
    [i \in 1..(Len(swapchain_images) - 1) |->
        [render_pass |-> render_pass.id, image |-> swapchain_images[i + 1]]]

\* create_framebuffers: one framebuffer per swapchain image, in order, each
\* built for `render_pass` and holding that image.
create_framebuffers(swapchain_images, render_pass) ==
    [i \in 1..Len(swapchain_images) |->
        [render_pass |-> render_pass.id, image |-> swapchain_images[i]]]

\* -------------------------------------------------- display/mod.rs

\* The Display before Display::create has run.
NoDisplay ==
    [swapchain |-> [id |-> 0, dimensions |-> <<0, 0>>, num_images |-> 0],
     swapchain_images |-> <<>>,
     render_pass |-> [id |-> 0],
     framebuffer_images |-> <<>>]

\* The outcomes of the fallible calls made while (re)building a swapchain:
\* swapchain creation, the number of images the backend returns, render
\* pass creation, and the allocations create_framebuffers unwraps.
BuildEnvs ==
    [fail : {"none", "swapchain", "render_pass", "framebuffers"},
     count : 1..MaxImages]

\* Display::create, from the swapchain on: the result is "Ok" with the new
\* display, "Err", or "Panic" (an unwrap inside create_framebuffers).
DisplayCreate(id, size, kind, lost, env) ==
    LET capabilities == Capabilities(kind, size)
        swap_extent == choose_swap_extent(size, capabilities)
        made == NewSwapchain(id, swap_extent, env.count)
        render_pass == create_render_pass(id)
    IN  IF lost \/ env.fail = "swapchain" \/ ~SupportedDimensions(swap_extent)
        THEN [result |-> "Err", self |-> NoDisplay]
        ELSE IF env.fail = "render_pass"
        THEN [result |-> "Err", self |-> NoDisplay]
        ELSE IF env.fail = "framebuffers"
        THEN [result |-> "Panic", self |-> NoDisplay]
        ELSE [result |-> "Ok",
              self |-> [swapchain |-> made.swapchain,
                        swapchain_images |-> made.images,
                        render_pass |-> render_pass,
                        framebuffer_images |->
                            create_framebuffers(made.images, render_pass)]]

\* Why recreate_with_dimensions fails: the surface is gone, the backend
\* refuses the dimensions, or the device fails (out of memory, lost).
RecreateError(size, lost) ==
    IF lost THEN "surface lost"
    ELSE IF ~SupportedDimensions(size) THEN "unsupported dimensions"
    ELSE "device error"

\* A mutant of rebuild_swapchain: the new swapchain and its images are
\* stored before the render pass is created, so a render pass error leaves
\* them next to the old render pass and the old framebuffers.
rebuild_swapchain_store_early(self, id, size, lost, env) ==
    LET made == NewSwapchain(id, size, env.count)
        render_pass == create_render_pass(id)
    IN  IF lost \/ env.fail = "swapchain" \/ ~SupportedDimensions(size)
        THEN [result |-> "Err", self |-> self,
              error |-> RecreateError(size, lost)]
        ELSE IF env.fail = "render_pass"
        THEN [result |-> "Err",
              self |-> [self EXCEPT !.swapchain = made.swapchain,
                                    !.swapchain_images = made.images],
              error |-> "device error"]
        ELSE IF env.fail = "framebuffers"
        THEN [result |-> "Panic", self |-> self, error |-> "device error"]
        ELSE [result |-> "Ok", error |-> "none",
              self |-> [swapchain |-> made.swapchain,
                        swapchain_images |-> made.images,
                        render_pass |-> render_pass,
                        framebuffer_images |->
                            create_framebuffers(made.images, render_pass)]]

\* A mutant of rebuild_swapchain: the framebuffers built for the new images
\* are dropped and the previous ones are kept.
rebuild_swapchain_keeps_framebuffers(self, id, size, lost, env) ==
    LET made == NewSwapchain(id, size, env.count)
        render_pass == create_render_pass(id)
    IN  IF lost \/ env.fail = "swapchain" \/ ~SupportedDimensions(size)
        THEN [result |-> "Err", self |-> self,
              error |-> RecreateError(size, lost)]
        ELSE IF env.fail = "render_pass"
        THEN [result |-> "Err", self |-> self, error |-> "device error"]
        ELSE IF env.fail = "framebuffers"
        THEN [result |-> "Panic", self |-> self, error |-> "device error"]
        ELSE [result |-> "Ok", error |-> "none",
              self |-> [self EXCEPT !.swapchain = made.swapchain,
                                    !.swapchain_images = made.images,
                                    !.render_pass = render_pass]]

\* Display::rebuild_swapchain: recreate the swapchain with the window's
\* current inner size, then the render pass, then the framebuffers; the
\* four fields are assigned only after all of them exist.
rebuild_swapchain(self, id, size, lost, env) ==
    LET made == NewSwapchain(id, size, env.count)
        render_pass == create_render_pass(id)
    IN  IF lost \/ env.fail = "swapchain" \/ ~SupportedDimensions(size)
        THEN [result |-> "Err", self |-> self,
              error |-> RecreateError(size, lost)]
        ELSE IF env.fail = "render_pass"
        THEN [result |-> "Err", self |-> self, error |-> "device error"]
        ELSE IF env.fail = "framebuffers"
        THEN [result |-> "Panic", self |-> self, error |-> "device error"]
        ELSE [result |-> "Ok", error |-> "none",
              self |-> [swapchain |-> made.swapchain,
                        swapchain_images |-> made.images,
                        render_pass |-> render_pass,
                        framebuffer_images |->
                            create_framebuffers(made.images, render_pass)]]

\* ------------------------------ application/particles/pipeline.rs

\* create_graphics_pipeline: a pipeline whose viewport has the given
\* swapchain extent and whose subpass belongs to the given render pass.
create_graphics_pipeline(id, swapchain_extent, render_pass) ==
    [id |-> id, render_pass |-> render_pass.id, extent |-> swapchain_extent]

NoPipeline == [id |-> 0, render_pass |-> 0, extent |-> <<0, 0>>]

\* create_transform_descriptor_set: a descriptor set built from the layout
\* of `pipeline`, binding the transform uniform and the particle buffer.
create_transform_descriptor_set(pipeline, buffer, transform) ==
    [layout |-> pipeline.id, buffer |-> buffer, projection |-> transform]

\* create_compute_descriptor_set: binds the particle buffer for the
\* compute pipeline.
create_compute_descriptor_set(buffer) == [buffer |-> buffer]

\* ------------------------------------- application/particles.rs

RECURSIVE Gcd(_, _)
Gcd(a, b) == IF b = 0 THEN a ELSE Gcd(b, a % b)

\* Mat4::identity(): the diagonal's x and y entries, x as a fraction.
IdentityProjection == [x |-> <<1, 1>>, y |-> 1]

\* Mat4::new_orthographic(-world_width / 2, world_width / 2, 1, -1, 1, -1)
\* with world_width = (width / height) * WORLD_SIZE: the x entry is
\* 2 / world_width = height / width (kept as a reduced fraction), the y
\* entry is 2 / (top - bottom) = -1.
OrthographicProjection(dimensions) ==
    LET g == Gcd(dimensions[1], dimensions[2])
    IN  [x |-> <<dimensions[2] \div g, dimensions[1] \div g>>, y |-> -1]

\* builder.dispatch([262144, 1, 1], ..): the work groups of one tick.
WorkGroups == 262144

\* layout(local_size_x = 64, ..): the invocations of one work group.
local_size_x == 64

\* initialize_vertices, `let max = 262144 * 64`: the vertices of the buffer.
initialize_vertices_max == 262144 * 64

\* The capacity of a vertex buffer: every buffer is built by
\* initialize_vertices; 0 stands for no buffer.
capacity(buffer) == IF buffer = 0 THEN 0 ELSE initialize_vertices_max

\* A mutant of dispatch_invocations: one work group more is dispatched.
dispatch_one_group_more == (WorkGroups + 1) * local_size_x

\* The invocations of main in one dispatch, one vertex index each.
dispatch_invocations == WorkGroups * local_size_x

\* draw, BufferlessVertices { vertices: 262144 * 64, instances: 1 }
draw_vertices == 262144 * 64

NoParticles ==
    [pipeline |-> NoPipeline,
     descriptor_set |-> [layout |-> 0, buffer |-> 0, projection |-> IdentityProjection],
     compute_descriptor_set |-> [buffer |-> 0],
     vertex_buffer |-> 0]

\* The outcomes of the fallible calls of the particle stage: the vertex
\* upload, the graphics pipeline, its descriptor set, the compute
\* pipeline's descriptor set.
ParticleEnvs ==
    [fail : {"none", "vertices", "pipeline", "descriptor", "compute"}]

\* Particles::new: pipeline, vertex buffer, a descriptor set holding the
\* identity projection, and the compute descriptor set.
particles_new(display, id, env) ==
    LET pipeline == create_graphics_pipeline(
                        id, display.swapchain.dimensions, display.render_pass)
    IN  IF env.fail = "pipeline" \/ env.fail = "vertices" \/ env.fail = "descriptor"
           \/ env.fail = "compute"
        THEN [result |-> "Err", self |-> NoParticles]
        ELSE [result |-> "Ok",
              self |-> [pipeline |-> pipeline,
                        descriptor_set |-> create_transform_descriptor_set(
                                               pipeline, id, IdentityProjection),
                        compute_descriptor_set |-> create_compute_descriptor_set(id),
                        vertex_buffer |-> id]]

\* A mutant of particles_rebuild_swapchain_resources: the new projection is
\* applied on top of the one already bound.
particles_rebuild_accumulates(self, display, id, env) ==
    IF env.fail = "pipeline"
    THEN [result |-> "Err", self |-> self]
    ELSE LET pipeline == create_graphics_pipeline(
                             id, display.swapchain.dimensions, display.render_pass)
             stored == [self EXCEPT !.pipeline = pipeline]
             old == self.descriptor_set.projection.x
             new == OrthographicProjection(display.swapchain.dimensions).x
             g == Gcd(old[1] * new[1], old[2] * new[2])
         IN  IF env.fail = "descriptor"
             THEN [result |-> "Err", self |-> stored]
             ELSE [result |-> "Ok",
                   self |-> [stored EXCEPT !.descriptor_set =
                               create_transform_descriptor_set(
                                   pipeline, self.vertex_buffer,
                                   [x |-> <<(old[1] * new[1]) \div g,
                                            (old[2] * new[2]) \div g>>,
                                    y |-> -1])]]

\* Particles::rebuild_swapchain_resources: self.pipeline is assigned, then
\* the projection is computed from the swapchain dimensions and
\* self.descriptor_set is assigned; each `?` returns with what has been
\* assigned so far.
particles_rebuild_swapchain_resources(self, display, id, env) ==
    IF env.fail = "pipeline"
    THEN [result |-> "Err", self |-> self]
    ELSE LET pipeline == create_graphics_pipeline(
                             id, display.swapchain.dimensions, display.render_pass)
             stored == [self EXCEPT !.pipeline = pipeline]
         IN  IF env.fail = "descriptor"
             THEN [result |-> "Err", self |-> stored]
             ELSE [result |-> "Ok",
                   self |-> [stored EXCEPT !.descriptor_set =
                               create_transform_descriptor_set(
                                   pipeline, self.vertex_buffer,
                                   OrthographicProjection(
                                       display.swapchain.dimensions))]]

\* Particles::reset_vertices: self.vertex_buffer is assigned first, then
\* rebuild_swapchain_resources runs, then self.compute_descriptor_set is
\* assigned; each `?` returns with what has been assigned so far.
reset_vertices(self, display, id, env) ==
    IF env.fail = "vertices"
    THEN [result |-> "Err", self |-> self]
    ELSE LET r == particles_rebuild_swapchain_resources(
                      [self EXCEPT !.vertex_buffer = id], display, id, env)
         IN  IF r.result = "Err"
             THEN [result |-> "Err", self |-> r.self]
             ELSE IF env.fail = "compute"
             THEN [result |-> "Err", self |-> r.self]
             ELSE [result |-> "Ok",
                   self |-> [r.self EXCEPT !.compute_descriptor_set =
                               create_compute_descriptor_set(id)]]

\* ------------------------------------------------------ f32 arithmetic

\* The floats of the simulation, taken as exact fractions <<n, d>> in lowest
\* terms with d > 0; NaN is the pair with denominator 0. Rounding is left
\* out; what is kept is the order of the operations and what a NaN does.
NaN == <<0, 0>>

IsNaN(a) == a[2] = 0

Zero == <<0, 1>>

Origin == <<Zero, Zero>>

Abs(n) == IF n < 0 THEN -n ELSE n

Frac(n, d) ==
    IF d = 0 THEN NaN
    ELSE LET g == Gcd(Abs(n), Abs(d))
         IN  IF d < 0 THEN <<(-n) \div g, (-d) \div g>> ELSE <<n \div g, d \div g>>

\* a + b and a - b, over the least common denominator l.
Add(a, b) == IF IsNaN(a) \/ IsNaN(b) THEN NaN
             ELSE LET l == (a[2] \div Gcd(a[2], b[2])) * b[2]
                  IN  Frac(a[1] * (l \div a[2]) + b[1] * (l \div b[2]), l)

Sub(a, b) == IF IsNaN(a) \/ IsNaN(b) THEN NaN
             ELSE LET l == (a[2] \div Gcd(a[2], b[2])) * b[2]
                  IN  Frac(a[1] * (l \div a[2]) - b[1] * (l \div b[2]), l)

Mul(a, b) == IF IsNaN(a) \/ IsNaN(b) THEN NaN
             ELSE Frac(a[1] * b[1], a[2] * b[2])

\* a / b; the only division by zero the simulation makes is 0.0 / 0.0,
\* which is NaN.
Div(a, b) == IF IsNaN(a) \/ IsNaN(b) THEN NaN
             ELSE Frac(a[1] * b[2], a[2] * b[1])

\* a > b and a < b: every comparison with a NaN is false.
Gt(a, b) == ~IsNaN(a) /\ ~IsNaN(b) /\ a[1] * b[2] > b[1] * a[2]

Lt(a, b) == ~IsNaN(a) /\ ~IsNaN(b) /\ a[1] * b[2] < b[1] * a[2]

Le(a, b) == ~IsNaN(a) /\ ~IsNaN(b) /\ a[1] * b[2] <= b[1] * a[2]

VAdd(u, v) == <<Add(u[1], v[1]), Add(u[2], v[2])>>

VSub(u, v) == <<Sub(u[1], v[1]), Sub(u[2], v[2])>>

VScale(v, s) == <<Mul(v[1], s), Mul(v[2], s)>>

VDiv(v, s) == <<Div(v[1], s), Div(v[2], s)>>

\* dot(u, v), magnitude_squared
dot(u, v) == Add(Mul(u[1], v[1]), Mul(u[2], v[2]))

\* The integer r with r * r = a * a + c * c, or -1 when there is none.
Root(a, c) ==
    IF \E r \in 0..(a + c) : r * r = a * a + c * c
    THEN CHOOSE r \in 0..(a + c) : r * r = a * a + c * c
    ELSE -1

\* length(v), norm: the components are brought to the common denominator
\* l and their common factor g is taken out of the root. The result is NaN
\* for a NaN component, and is expressed only when the root is exact and
\* within MaxRoot; otherwise the result is the marker -1.
length(v) ==
    IF IsNaN(v[1]) \/ IsNaN(v[2]) THEN NaN
    ELSE LET l == (v[1][2] \div Gcd(v[1][2], v[2][2])) * v[2][2]
             a == Abs(v[1][1]) * (l \div v[1][2])
             c == Abs(v[2][1]) * (l \div v[2][2])
             g == Gcd(a, c)
         IN  IF g = 0 THEN Zero
             ELSE LET r == IF a \div g > MaxRoot \/ c \div g > MaxRoot THEN -1
                           ELSE Root(a \div g, c \div g)
                  IN  IF r < 0 THEN <<-1, 1>> ELSE Frac(g * r, l)

\* The vectors whose length this arithmetic can express.
ExactLength(v) == length(v)[1] >= 0

\* ------------------- application/particles/pipeline.rs, compute shader

eps == <<1, 10>>

damping == <<49, 50>>

MAX_VEL == <<5, 1>>

\* What GLSL leaves undefined and a build decides: normalize of the zero
\* vector (0 * inversesqrt(0)) and clamp of a NaN.
ShaderBuilds ==
    [normalize_zero : {"NaN", "zero"}, clamp_nan : {"NaN", "lower", "upper"}]

\* GLSL normalize(v) = v / length(v)
normalize(v, build) ==
    IF v = Origin
    THEN IF build.normalize_zero = "NaN" THEN <<NaN, NaN>> ELSE v
    ELSE VDiv(v, length(v))

\* GLSL clamp(x, lower, upper) = min(max(x, lower), upper)
glsl_clamp(x, lower, upper, build) ==
    IF IsNaN(x)
    THEN CASE build.clamp_nan = "NaN" -> NaN
           [] build.clamp_nan = "lower" -> lower
           [] build.clamp_nan = "upper" -> upper
    ELSE LET m == IF Gt(lower, x) THEN lower ELSE x
         IN  IF Lt(upper, m) THEN upper ELSE m

clamp_to_bounds(pos, build) ==
    <<glsl_clamp(pos[1], <<-2, 1>>, <<2, 1>>, build),
      glsl_clamp(pos[2], <<-1, 1>>, <<1, 1>>, build)>>

clamp_velocity(vel, build) ==
    IF Gt(dot(vel, vel), Mul(MAX_VEL, MAX_VEL))
    THEN VScale(normalize(vel, build), MAX_VEL)
    ELSE vel

\* The velocity after the `if (pc.enabled)` block of main.
attract(vertex, push, build) ==
    IF push.enabled
    THEN LET diff == VSub(push.attractor, vertex.pos)
             dir == normalize(diff, build)
             acceleration == VDiv(dir, Add(dot(diff, diff), eps))
         IN  VAdd(vertex.vel, VScale(acceleration, push.timestep))
    ELSE vertex.vel

\* A mutant of main: the velocity is damped before it is clamped.
main_damps_before_clamp(vertex, push, build) ==
    LET vel == clamp_velocity(VScale(attract(vertex, push, build), damping), build)
        pos == VAdd(vertex.pos, VScale(vel, push.timestep))
    IN  [pos |-> clamp_to_bounds(pos, build), vel |-> vel]

\* void main(): one invocation, on the vertex it reads and writes back.
main(vertex, push, build) ==
    LET attracted == attract(vertex, push, build)
        clamped == clamp_velocity(attracted, build)
        vel == VScale(clamped, damping)
        pos == VAdd(vertex.pos, VScale(vel, push.timestep))
    IN  [pos |-> clamp_to_bounds(pos, build), vel |-> vel]

\* -------------------------------- application/kinematic_particle.rs

Particle_MAX_VEL == <<5, 1>>

\* 1.0 - 1e-5
DAMPING == <<99999, 100000>>

\* nalgebra::clamp(val, min, max)
nalgebra_clamp(val, min, max) ==
    IF Gt(val, min) THEN (IF Lt(val, max) THEN val ELSE max) ELSE min

clamp_pos(self) ==
    [self EXCEPT !.pos = <<nalgebra_clamp(self.pos[1], <<-2, 1>>, <<2, 1>>),
                           nalgebra_clamp(self.pos[2], <<-2, 1>>, <<2, 1>>)>>]

\* clamp_vel: normalize_mut and scale_mut(MAX_VEL) above MAX_VEL, then the
\* damping in every case.
clamp_vel(self) ==
    LET vel == IF Gt(dot(self.vel, self.vel), Mul(Particle_MAX_VEL, Particle_MAX_VEL))
               THEN VScale(VDiv(self.vel, length(self.vel)), Particle_MAX_VEL)
               ELSE self.vel
    IN  [self EXCEPT !.vel = VScale(vel, DAMPING)]

\* Particle::integrate
integrate(self, time) ==
    LET accelerated == [self EXCEPT !.vel = VAdd(self.vel, VScale(self.acc, time))]
        clamped == clamp_vel(accelerated)
        moved == [clamped EXCEPT !.pos = VAdd(clamped.pos, VScale(clamped.vel, time))]
        boxed == clamp_pos(moved)
    IN  [boxed EXCEPT !.lifetime = Add(boxed.lifetime, time),
                      !.acc = Origin]

\* ---------------------------------------------------- application.rs

\* Application::rebuild_swapchain_resources: call display.rebuild_swapchain()
\* (its Result is dropped: the call is a statement, without `?`), then
\* rebuild the pipeline from the display's dimensions and render pass.
\* `failed` names the steps that returned an error.
app_rebuild_swapchain_resources(display, pipeline, id, size, lost, env, pipeline_ok) ==
    LET r == rebuild_swapchain(display, id, size, lost, env)
    IN  IF r.result = "Panic"
        THEN [result |-> "Panic", display |-> display, pipeline |-> pipeline,
              failed |-> {}]
        ELSE IF ~pipeline_ok
        THEN [result |-> "Err", display |-> r.self, pipeline |-> pipeline,
              failed |-> {"pipeline rebuild"}
                           \cup IF r.result = "Err" THEN {"swapchain rebuild"} ELSE {}]
        ELSE [result |-> "Ok", display |-> r.self,
              pipeline |-> create_graphics_pipeline(
                               id, r.self.swapchain.dimensions, r.self.render_pass),
              failed |-> IF r.result = "Err" THEN {"swapchain rebuild"} ELSE {}]

\* ------------------------------------------------------------- state
VARIABLES
    window_size,    \* surface.window().inner_size()
    surface_lost,   \* the surface has been destroyed
    device_lost,    \* the device has been lost
    display,        \* Display: swapchain, swapchain_images, render_pass, framebuffer_images
    pipeline,       \* Application.pipeline
    particles,      \* Particles: pipeline, descriptor sets, vertex_buffer
    builds,         \* number of Particles::new / reset / rebuild calls so far
    commands,       \* the secondary command buffer Particles::draw returned
    particles_result, \* what the latest call of the particle stage returned
    visible,        \* the window is visible
    gen,            \* number of Display::create / rebuild_swapchain calls so far
    pc,             \* where the control thread is
    handler,        \* who called render: "first" (main_loop) or "cleared" (the callback)
    control_flow,   \* the event loop's ControlFlow
    frame,          \* the frame being rendered by the current render call
    render_result,  \* what the last render call returned
    gpu_queue,      \* work submitted to the GPU and not yet completed
    inflight,       \* frames acquired whose present has not completed
    frame_log,      \* what has happened to the current frame, in order
    failed,         \* the steps of the main loop that have returned an error
    last_rebuild,   \* what the last Display::rebuild_swapchain call returned, and why
    exit_cause,     \* why control_flow was set to Exit: "close" or "failure"
    log,            \* the error messages logged
    exit_code,      \* the process exit code, "running" while it runs
    arg_capabilities,  \* the surface capabilities handed to the swapchain choices
    arg_physical_size, \* the window size handed to choose_swap_extent
    chosen,         \* what choose_swap_extent and choose_image_count returned
    simulated,      \* "vertex", "particle" or "none": what is being followed
    shader_build,   \* what the GPU's build makes of GLSL's undefined results
    push_constants, \* the push constants of the latest compute dispatch
    vertex_before,  \* a vertex of the buffer before the latest dispatch
    vertex,         \* the same vertex now
    particle,       \* a host-side kinematic Particle
    ticks,          \* the dispatches, or the integrate calls, made on it
    extents,        \* the swapchain extents the particle stage was rebuilt at
    arg_device,     \* the physical device the logical device is created on
    arg_graphics_queue, \* the graphics queue handed to choose_sharing_mode
    arg_present_queue,  \* the present queue handed to choose_sharing_mode
    sharing_mode    \* what choose_sharing_mode returned

\* The variables that hold the arguments and results of the functions
\* exercised on their own; the program's run leaves them alone.
svars == <<arg_capabilities, arg_physical_size, chosen>>

kvars == <<simulated, shader_build, push_constants, vertex_before, vertex, particle,
           ticks>>

qvars == <<arg_device, arg_graphics_queue, arg_present_queue, sharing_mode>>

fvars == <<svars, kvars, qvars, extents>>

vars == <<window_size, surface_lost, device_lost, display, pipeline, particles,
          builds, commands, particles_result, visible,
          gen, pc, handler, control_flow, frame, render_result, gpu_queue,
          inflight, frame_log, failed, last_rebuild, exit_cause, log, exit_code,
          fvars>>

NoRebuild == [result |-> "none", error |-> "none"]

NoFrame == [image_index |-> 0, suboptimal |-> FALSE, swapchain |-> 0,
            fb_render_pass |-> 0, fb_image |-> 0, pipeline_render_pass |-> 0,
            reads |-> 0, after_tick |-> FALSE]

NoResult == [call |-> "none", result |-> "none"]

TickOk == [call |-> "tick", result |-> "Ok"]

NoCommands ==
    [pipeline |-> 0, render_pass |-> 0, layout |-> 0, buffer |-> 0, vertices |-> 0]

\* The variables of the particle stage and of its caller.
pvars == <<particles, builds, commands, particles_result>>

NoChoice == [extent |-> <<0, 0>>, image_count |-> 0]

\* No swapchain choice is being exercised on its own.
NoSelection ==
    /\ arg_capabilities = Capabilities([min_image_count |-> 1, max_image_count |-> None,
                                        reports_extent |-> FALSE], <<0, 0>>)
    /\ arg_physical_size = <<0, 0>>
    /\ chosen = NoChoice

NoVertex == [pos |-> Origin, vel |-> Origin]

NoPushConstants == [enabled |-> FALSE, attractor |-> Origin, timestep |-> Zero]

\* Particle::at(origin)
NoParticle == [pos |-> Origin, vel |-> Origin, acc |-> Origin, lifetime |-> Zero]

\* No vertex and no particle is being followed.
NoSimulation ==
    /\ simulated = "none"
    /\ shader_build = [normalize_zero |-> "NaN", clamp_nan |-> "NaN"]
    /\ push_constants = NoPushConstants
    /\ vertex_before = NoVertex
    /\ vertex = NoVertex
    /\ particle = NoParticle
    /\ ticks = 0

NoSharingMode == [mode |-> "none", queue_families |-> <<>>]

\* No queue is being taken on its own.
NoQueues ==
    /\ arg_device = <<>>
    /\ arg_graphics_queue = NoQueue
    /\ arg_present_queue = NoQueue
    /\ sharing_mode = NoSharingMode

\* No function is being exercised on its own.
NoArguments == NoSelection /\ NoSimulation /\ NoQueues /\ extents = <<>>

\* The program before main has run, whatever its window will be.
ProgramIdle ==
    /\ surface_lost = FALSE
    /\ device_lost = FALSE
    /\ display = NoDisplay
    /\ pipeline = NoPipeline
    /\ particles = NoParticles
    /\ builds = 0
    /\ commands = NoCommands
    /\ particles_result = NoResult
    /\ visible = FALSE
    /\ gen = 0
    /\ pc = "start"
    /\ handler = "none"
    /\ control_flow = "Poll"
    /\ frame = NoFrame
    /\ render_result = "none"
    /\ gpu_queue = <<>>
    /\ inflight = {}
    /\ frame_log = <<>>
    /\ failed = {}
    /\ last_rebuild = NoRebuild
    /\ exit_cause = "none"
    /\ log = {}
    /\ exit_code = "running"

\* The program before main has run.
NotStarted ==
    /\ window_size \in {s \in Sizes : s[1] > 0 /\ s[2] > 0}
    /\ ProgramIdle

Init == NotStarted /\ NoArguments

Running == exit_code = "running"

\* The process ends with `code`.
Exits(code) ==
    /\ pc' = "exited"
    /\ exit_code' = code

\* A write of `value` to the callback's control_flow parameter: ControlFlow::Exit
\* is sticky, the event loop hands the callback a dummy once it is set.
SetControlFlow(value) == IF control_flow = "Exit" THEN "Exit" ELSE value

\* Why the loop is ending: the first write of ControlFlow::Exit decides.
ExitCause(cause) == IF control_flow = "Exit" THEN exit_cause ELSE cause

\* ------------------------------------------------- the environment

\* The user or the window system resizes the window.
EnvResize ==
    /\ Running /\ pc = "events" /\ gen < MaxRebuilds
    /\ \E s \in Sizes : s /= window_size /\ window_size' = s
    /\ UNCHANGED <<fvars, pvars, surface_lost, device_lost, display, pipeline, visible, gen,
                   pc, handler, control_flow, frame, render_result, gpu_queue,
                   inflight, frame_log, failed, last_rebuild, exit_cause, log, exit_code>>

\* The surface is destroyed.
EnvSurfaceLost ==
    /\ Running /\ pc = "events" /\ ~surface_lost
    /\ surface_lost' = TRUE
    /\ UNCHANGED <<fvars, pvars, window_size, device_lost, display, pipeline, visible, gen,
                   pc, handler, control_flow, frame, render_result, gpu_queue,
                   inflight, frame_log, failed, last_rebuild, exit_cause, log, exit_code>>

\* The GPU completes the next piece of submitted work.  Completing the
\* present of a frame ends that frame's flight.
GpuStep ==
    /\ Running /\ gpu_queue /= <<>>
    /\ LET w == Head(gpu_queue)
       IN  /\ gpu_queue' = Tail(gpu_queue)
           /\ inflight' = IF w.op = "present" THEN inflight \ {w.frame} ELSE inflight
           /\ frame_log' = CASE w.op = "present" -> Append(frame_log, "presented")
                             [] w.op = "execute" -> Append(frame_log, "executed")
                             [] OTHER -> frame_log
    /\ UNCHANGED <<fvars, pvars, window_size, surface_lost, device_lost, display, pipeline,
                   visible, gen, pc, handler, control_flow, frame, render_result,
                   failed, last_rebuild, exit_cause, log, exit_code>>

\* ------------------------------------------------------ main.rs, run

\* run: Application::initialize, i.e. Display::create and the first pipeline.
\* An error is returned to main, which logs it and returns it: the process
\* exits with a failure code.
Initialize ==
    /\ Running /\ pc = "start"
    /\ \E kind \in SurfaceKinds, env \in BuildEnvs, pipeline_ok \in BOOLEAN :
        /\ env.count >= choose_image_count(Capabilities(kind, window_size))
        /\ LET c == DisplayCreate(gen + 1, window_size, kind, surface_lost, env)
           IN  /\ gen' = gen + 1
               /\ CASE c.result = "Panic" ->
                        /\ Exits("101")
                        /\ UNCHANGED <<display, pipeline, log>>
                    [] c.result = "Err" \/ (c.result = "Ok" /\ ~pipeline_ok) ->
                        /\ Exits("1")
                        /\ log' = log \cup {"Application exited unsuccessfully!"}
                        /\ UNCHANGED <<display, pipeline>>
                    [] OTHER ->
                        /\ display' = c.self
                        /\ pipeline' = create_graphics_pipeline(
                                           gen + 1, c.self.swapchain.dimensions,
                                           c.self.render_pass)
                        /\ pc' = "initialized"
                        /\ UNCHANGED <<log, exit_code>>
    /\ UNCHANGED <<fvars, pvars, window_size, surface_lost, device_lost, visible, handler,
                   control_flow, frame, render_result, gpu_queue, inflight,
                   frame_log, failed, last_rebuild, exit_cause>>

\* ------------------------------------------- Application::render

\* The image indices acquire_next_image can return: those of the current
\* swapchain that no frame in flight holds.
AvailableImages ==
    {i \in 0..(display.swapchain.num_images - 1) :
        [swapchain |-> display.swapchain.id, image |-> i] \notin inflight}

FrameKey == [swapchain |-> frame.swapchain, image |-> frame.image_index]

\* A mutant of FrameWork: the present is chained before the execution.
FrameWorkPresentsFirst ==
    <<[op |-> "present", frame |-> FrameKey, buffer |-> 0],
      [op |-> "execute", frame |-> FrameKey, buffer |-> frame.reads]>>

\* What a frame submits: the execution of its command buffer, which reads
\* the particle buffer its draw binds, then the present of its image.
FrameWork ==
    <<[op |-> "execute", frame |-> FrameKey, buffer |-> frame.reads],
      [op |-> "present", frame |-> FrameKey, buffer |-> 0]>>

\* render returns Err from step `step`: the frame is dropped.
RenderFails(step) ==
    /\ render_result' = "Err"
    /\ failed' = failed \cup {step}
    /\ pc' = "render_done"

\* acquire_next_image(swapchain, None): blocks until an image is free.
RenderAcquire ==
    /\ Running /\ pc = "acquire"
    /\ \/ /\ RenderFails("acquire")
          /\ UNCHANGED <<frame, inflight, frame_log>>
       \/ /\ ~surface_lost /\ ~device_lost
          /\ \E i \in AvailableImages, sub \in BOOLEAN :
               /\ sub => gen < MaxRebuilds
               /\ frame' = [NoFrame EXCEPT !.image_index = i, !.suboptimal = sub,
                                           !.swapchain = display.swapchain.id]
               /\ inflight' = inflight \cup
                                {[swapchain |-> display.swapchain.id, image |-> i]}
          /\ frame_log' = <<"acquired">>
          /\ pc' = "build"
          /\ UNCHANGED <<render_result, failed>>
    /\ UNCHANGED <<fvars, pvars, window_size, surface_lost, device_lost, display, pipeline,
                   visible, gen, handler, control_flow, gpu_queue, last_rebuild, exit_cause,
                   log, exit_code>>

\* build_command_buffer(image_index): index framebuffer_images, begin the
\* render pass on that framebuffer and draw with self.pipeline.  The
\* indexing and every unwrap in it panic instead of returning an error.
RenderBuild ==
    /\ Running /\ pc = "build"
    /\ \E ok \in BOOLEAN :
        IF frame.image_index + 1 > Len(display.framebuffer_images) \/ ~ok
        THEN /\ Exits("101")
             /\ UNCHANGED <<frame, frame_log>>
        ELSE /\ LET fb == display.framebuffer_images[frame.image_index + 1]
                IN  frame' = [frame EXCEPT !.fb_render_pass = fb.render_pass,
                                           !.fb_image = fb.image.index,
                                           !.pipeline_render_pass = pipeline.render_pass]
             /\ frame_log' = Append(frame_log, "recorded")
             /\ pc' = "execute"
             /\ UNCHANGED exit_code
    /\ UNCHANGED <<fvars, pvars, window_size, surface_lost, device_lost, display, pipeline,
                   visible, gen, handler, control_flow, render_result, gpu_queue,
                   inflight, failed, last_rebuild, exit_cause, log>>

\* acquire_swapchain_future.then_execute(graphics_queue, command_buffer)?
RenderExecute ==
    /\ Running /\ pc = "execute"
    /\ \/ /\ RenderFails("execute")
          /\ inflight' = inflight \ {FrameKey}
       \/ /\ ~device_lost
          /\ pc' = "present"
          /\ UNCHANGED <<render_result, failed, inflight>>
    /\ UNCHANGED <<fvars, pvars, window_size, surface_lost, device_lost, display, pipeline,
                   visible, gen, handler, control_flow, frame, gpu_queue, frame_log,
                   last_rebuild, exit_cause, log, exit_code>>

\* .then_swapchain_present(present_queue, swapchain, image_index)
\* .then_signal_fence_and_flush()?: the execution and the present are
\* submitted, in that order, followed by the fence.
RenderPresentFlush ==
    /\ Running /\ pc = "present"
    /\ \/ /\ RenderFails("present")
          /\ inflight' = inflight \ {FrameKey}
          /\ UNCHANGED <<gpu_queue, frame_log>>
       \/ /\ ~device_lost /\ ~surface_lost
          /\ gpu_queue' = gpu_queue \o FrameWork
          /\ frame_log' = Append(frame_log, "submitted")
          /\ pc' = "wait"
          /\ UNCHANGED <<render_result, failed, inflight>>
    /\ UNCHANGED <<fvars, pvars, window_size, surface_lost, device_lost, display, pipeline,
                   visible, gen, handler, control_flow, frame, last_rebuild, exit_cause, log,
                   exit_code>>

\* future.wait(None) returns Ok once the fence is signalled, which it is
\* when the GPU has completed everything submitted before it.
FrameFenceObserved == gpu_queue = <<>>

\* future.wait(None)?: blocks until the fence is signalled; it fails when
\* the device is lost, and the GPU then abandons the submitted work.
RenderWait ==
    /\ Running /\ pc = "wait"
    /\ \/ /\ FrameFenceObserved
          /\ frame_log' = Append(frame_log, "waited")
          /\ pc' = "post"
          /\ UNCHANGED <<render_result, failed, gpu_queue, inflight, device_lost>>
       \/ /\ gpu_queue /= <<>>
          /\ RenderFails("wait")
          /\ device_lost' = TRUE
          /\ gpu_queue' = <<>>
          /\ inflight' = {}
          /\ UNCHANGED frame_log
    /\ UNCHANGED <<fvars, pvars, window_size, surface_lost, display, pipeline, visible, gen,
                   handler, control_flow, frame, last_rebuild, exit_cause, log, exit_code>>

\* `if suboptimal`: render rebuilds exactly when acquire reported suboptimal.
RebuildAfterFrame(suboptimal) == suboptimal

\* if suboptimal { self.rebuild_swapchain_resources()?; }  Ok(())
RenderPost ==
    /\ Running /\ pc = "post"
    /\ IF RebuildAfterFrame(frame.suboptimal)
       THEN \E env \in BuildEnvs, pipeline_ok \in BOOLEAN :
              /\ env.count >= display.swapchain.num_images
              /\ LET r == app_rebuild_swapchain_resources(
                              display, pipeline, gen + 1, window_size,
                              surface_lost \/ device_lost, env, pipeline_ok)
                     d == rebuild_swapchain(display, gen + 1, window_size,
                                            surface_lost \/ device_lost, env)
                 IN  /\ gen' = gen + 1
                     /\ last_rebuild' = [result |-> d.result, error |-> d.error]
                     /\ frame_log' = Append(frame_log, "rebuilt")
                     /\ IF r.result = "Panic"
                        THEN /\ Exits("101")
                             /\ UNCHANGED <<display, pipeline, render_result, failed>>
                        ELSE /\ display' = r.display
                             /\ pipeline' = r.pipeline
                             /\ render_result' = r.result
                             /\ failed' = failed \cup r.failed
                             /\ pc' = "render_done"
                             /\ UNCHANGED exit_code
       ELSE /\ render_result' = "Ok"
            /\ pc' = "render_done"
            /\ UNCHANGED <<display, pipeline, gen, last_rebuild, frame_log, failed,
                           exit_code>>
    /\ UNCHANGED <<fvars, pvars, window_size, surface_lost, device_lost, visible, handler,
                   control_flow, frame, gpu_queue, inflight, exit_cause, log>>

\* ---------------------------------------- Application::main_loop

\* main_loop takes the event loop and renders the first frame.
\* A mutant of MainLoopBegin: the window is shown before the first frame.
MainLoopBeginShowsWindow ==
    /\ Running /\ pc = "initialized"
    /\ handler' = "first"
    /\ pc' = "acquire"
    /\ visible' = TRUE
    /\ UNCHANGED <<fvars, pvars, window_size, surface_lost, device_lost, display, pipeline,
                   gen, control_flow, frame, render_result, gpu_queue,
                   inflight, frame_log, failed, last_rebuild, exit_cause, log, exit_code>>

MainLoopBegin ==
    /\ Running /\ pc = "initialized"
    /\ handler' = "first"
    /\ pc' = "acquire"
    /\ UNCHANGED <<fvars, pvars, window_size, surface_lost, device_lost, display, pipeline,
                   visible, gen, control_flow, frame, render_result, gpu_queue,
                   inflight, frame_log, failed, last_rebuild, exit_cause, log, exit_code>>

\* self.render().context(..)?; set_visible(true); event_loop.run(..)
\* An error of the first frame is returned to main, which logs it.
FirstFrameDone ==
    /\ Running /\ pc = "render_done" /\ handler = "first"
    /\ IF render_result = "Err"
       THEN /\ Exits("1")
            /\ log' = log \cup {"Application exited unsuccessfully!"}
            /\ UNCHANGED <<visible, handler, frame, frame_log, render_result>>
       ELSE /\ visible' = TRUE
            /\ handler' = "none"
            /\ pc' = "events"
            /\ frame' = NoFrame
            /\ frame_log' = <<>>
            /\ render_result' = "none"
            /\ UNCHANGED <<log, exit_code>>
    /\ UNCHANGED <<fvars, pvars, window_size, surface_lost, device_lost, display, pipeline,
                   gen, control_flow, gpu_queue, inflight, failed, last_rebuild, exit_cause>>

\* The callback is invoked with WindowEvent::CloseRequested.
EvCloseRequested ==
    /\ Running /\ pc = "events"
    /\ control_flow' = "Exit"
    /\ exit_cause' = ExitCause("close")
    /\ UNCHANGED <<fvars, pvars, window_size, surface_lost, device_lost, display, pipeline,
                   visible, gen, pc, handler, frame, render_result, gpu_queue,
                   inflight, frame_log, failed, last_rebuild, log, exit_code>>

\* The callback is invoked with WindowEvent::Resized: control_flow is set to
\* Poll, then rebuild_swapchain_resources runs; its error is logged and
\* sets control_flow to Exit.
EvResized ==
    /\ Running /\ pc = "events" /\ gen < MaxRebuilds
    /\ \E env \in BuildEnvs, pipeline_ok \in BOOLEAN :
        /\ env.count >= display.swapchain.num_images
        /\ LET r == app_rebuild_swapchain_resources(
                        display, pipeline, gen + 1, window_size,
                        surface_lost \/ device_lost, env, pipeline_ok)
               d == rebuild_swapchain(display, gen + 1, window_size,
                                      surface_lost \/ device_lost, env)
           IN  /\ gen' = gen + 1
               /\ last_rebuild' = [result |-> d.result, error |-> d.error]
               /\ IF r.result = "Panic"
                  THEN /\ Exits("101")
                       /\ UNCHANGED <<display, pipeline, failed, log, control_flow,
                                      exit_cause>>
                  ELSE /\ display' = r.display
                       /\ pipeline' = r.pipeline
                       /\ failed' = failed \cup r.failed
                       /\ IF r.result = "Err"
                          THEN /\ log' = log \cup {"unable to rebuild the swapchain"}
                               /\ control_flow' = "Exit"
                               /\ exit_cause' = ExitCause("failure")
                          ELSE /\ control_flow' = SetControlFlow("Poll")
                               /\ UNCHANGED <<log, exit_cause>>
                       /\ UNCHANGED <<pc, exit_code>>
    /\ UNCHANGED <<fvars, pvars, window_size, surface_lost, device_lost, visible, handler,
                   frame, render_result, gpu_queue, inflight, frame_log>>

\* The callback is invoked with an event it does not match (`_ => ()`).
EvOther ==
    /\ Running /\ pc = "events"
    /\ control_flow' = SetControlFlow("Poll")
    /\ UNCHANGED <<fvars, pvars, window_size, surface_lost, device_lost, display, pipeline,
                   visible, gen, pc, handler, frame, render_result, gpu_queue,
                   inflight, frame_log, failed, last_rebuild, exit_cause, log, exit_code>>

\* The callback is invoked with Event::MainEventsCleared, once per
\* iteration after the window events: control_flow is set to Poll and
\* render is called.
EvMainEventsCleared ==
    /\ Running /\ pc = "events"
    /\ handler' = "cleared"
    /\ control_flow' = SetControlFlow("Poll")
    /\ pc' = "acquire"
    /\ UNCHANGED <<fvars, pvars, window_size, surface_lost, device_lost, display, pipeline,
                   visible, gen, frame, render_result, gpu_queue, inflight,
                   frame_log, failed, last_rebuild, exit_cause, log, exit_code>>

\* The MainEventsCleared arm after render returned: an error is logged and
\* sets control_flow to Exit, otherwise a redraw is requested.
MainEventsClearedDone ==
    /\ Running /\ pc = "render_done" /\ handler = "cleared"
    /\ IF render_result = "Err"
       THEN /\ log' = log \cup {"unable to render the frame"}
            /\ control_flow' = "Exit"
            /\ exit_cause' = ExitCause("failure")
       ELSE UNCHANGED <<log, control_flow, exit_cause>>
    /\ pc' = "iter_end"
    /\ handler' = "none"
    /\ frame' = NoFrame
    /\ frame_log' = <<>>
    /\ render_result' = "none"
    /\ UNCHANGED <<fvars, pvars, window_size, surface_lost, device_lost, display, pipeline,
                   visible, gen, gpu_queue, inflight, failed, last_rebuild,
                   exit_code>>

\* The end of one iteration of the event loop: with ControlFlow::Exit the
\* loop sends LoopDestroyed (unmatched by the callback) and ends the
\* process with exit code 0, run never returns; otherwise it polls again.
LoopIterEnd ==
    /\ Running /\ pc = "iter_end"
    /\ IF control_flow = "Exit"
       THEN Exits("0")
       ELSE /\ pc' = "events"
            /\ UNCHANGED exit_code
    /\ UNCHANGED <<fvars, pvars, window_size, surface_lost, device_lost, display, pipeline,
                   visible, gen, handler, control_flow, frame, render_result,
                   gpu_queue, inflight, frame_log, failed, last_rebuild, exit_cause, log>>

\* -------------------------------- the particle stage and its caller
\* The frame driver of the particle variant calls the display and the
\* particle stage from one thread, in any order. render_result,
\* particles_result and last_rebuild hold what the latest call returned.

\* Display::create, then Particles::new.
ParticlesInitialize ==
    /\ Running /\ pc = "start"
    /\ \E kind \in SurfaceKinds, env \in BuildEnvs, penv \in ParticleEnvs :
        /\ env.count >= choose_image_count(Capabilities(kind, window_size))
        /\ LET c == DisplayCreate(gen + 1, window_size, kind, surface_lost, env)
               n == particles_new(c.self, builds + 1, penv)
           IN  /\ gen' = gen + 1
               /\ CASE c.result = "Panic" ->
                        /\ Exits("101")
                        /\ UNCHANGED <<display, particles, builds, log>>
                    [] c.result = "Err" \/ (c.result = "Ok" /\ n.result = "Err") ->
                        /\ Exits("1")
                        /\ log' = log \cup {"Application exited unsuccessfully!"}
                        /\ UNCHANGED <<display, particles, builds>>
                    [] OTHER ->
                        /\ display' = c.self
                        /\ particles' = n.self
                        /\ builds' = builds + 1
                        /\ pc' = "idle"
                        /\ UNCHANGED <<log, exit_code>>
    /\ UNCHANGED <<fvars, commands, particles_result, window_size, surface_lost,
                   device_lost, pipeline, visible, handler, control_flow, frame,
                   render_result, gpu_queue, inflight, frame_log, failed,
                   last_rebuild, exit_cause>>

\* Particles::tick up to then_signal_fence_and_flush: the dispatch over the
\* buffer bound by compute_descriptor_set is submitted to the compute queue.
ParticlesTickSubmit ==
    /\ Running /\ pc = "idle"
    /\ \/ /\ particles_result' = [call |-> "tick", result |-> "Err"]
          /\ UNCHANGED <<pc, gpu_queue>>
       \/ /\ ~device_lost
          /\ gpu_queue' = Append(gpu_queue,
                                 [op |-> "compute",
                                  frame |-> [swapchain |-> 0, image |-> 0],
                                  buffer |-> particles.compute_descriptor_set.buffer,
                                  invocations |-> dispatch_invocations])
          /\ particles_result' = NoResult
          /\ pc' = "tick_wait"
    /\ render_result' = "none"
    /\ last_rebuild' = NoRebuild
    /\ UNCHANGED <<fvars, particles, builds, commands, window_size, surface_lost,
                   device_lost, display, pipeline, visible, gen, handler,
                   control_flow, frame, inflight, frame_log, failed, exit_cause,
                   log, exit_code>>

\* A mutant of TickFenceObserved: tick returns without the fence.
TickFenceNotAwaited == TRUE

\* .wait(None) in tick returns Ok once the fence that follows the dispatch
\* is signalled.
TickFenceObserved == gpu_queue = <<>>

\* Particles::tick, .wait(None)? and Ok(()).
ParticlesTickWait ==
    /\ Running /\ pc = "tick_wait"
    /\ \/ /\ TickFenceObserved
          /\ particles_result' = TickOk
          /\ UNCHANGED <<gpu_queue, device_lost, inflight>>
       \/ /\ gpu_queue /= <<>>
          /\ particles_result' = [call |-> "tick", result |-> "Err"]
          /\ device_lost' = TRUE
          /\ gpu_queue' = <<>>
          /\ inflight' = {}
    /\ pc' = "idle"
    /\ UNCHANGED <<fvars, particles, builds, commands, window_size, surface_lost, display,
                   pipeline, visible, gen, handler, control_flow, frame,
                   render_result, frame_log, failed, last_rebuild, exit_cause, log,
                   exit_code>>

\* Particles::draw: a secondary command buffer for subpass 0 of the
\* display's render pass, drawing with self.pipeline and self.descriptor_set.
particles_draw(self, render_pass) ==
    [pipeline |-> self.pipeline.id,
     render_pass |-> render_pass.id,
     layout |-> self.descriptor_set.layout,
     buffer |-> self.descriptor_set.buffer,
     vertices |-> draw_vertices]

\* Particles::rebuild_swapchain_resources, called by the frame driver.
ParticlesRebuild ==
    /\ Running /\ pc = "idle" /\ ~device_lost /\ builds < MaxParticleBuilds
    /\ \E penv \in ParticleEnvs :
         LET r == particles_rebuild_swapchain_resources(
                      particles, display, builds + 1, penv)
         IN  /\ particles' = r.self
             /\ particles_result' = [call |-> "rebuild", result |-> r.result]
    /\ builds' = builds + 1
    /\ render_result' = "none"
    /\ last_rebuild' = NoRebuild
    /\ UNCHANGED <<fvars, commands, window_size, surface_lost, device_lost, display,
                   pipeline, visible, gen, pc, handler, control_flow, frame,
                   gpu_queue, inflight, frame_log, failed, exit_cause, log,
                   exit_code>>

\* Particles::reset_vertices, called by the frame driver.
ParticlesReset ==
    /\ Running /\ pc = "idle" /\ ~device_lost /\ builds < MaxParticleBuilds
    /\ \E penv \in ParticleEnvs :
         LET r == reset_vertices(particles, display, builds + 1, penv)
         IN  /\ particles' = r.self
             /\ particles_result' = [call |-> "reset", result |-> r.result]
    /\ builds' = builds + 1
    /\ render_result' = "none"
    /\ last_rebuild' = NoRebuild
    /\ UNCHANGED <<fvars, commands, window_size, surface_lost, device_lost, display,
                   pipeline, visible, gen, pc, handler, control_flow, frame,
                   gpu_queue, inflight, frame_log, failed, exit_cause, log,
                   exit_code>>

\* Particles::initialize_vertices up to then_signal_fence_and_flush, as
\* reset_vertices calls it: ImmutableBuffer::from_iter allocates the buffer
\* and yields the one-shot upload as a future, which is flushed to the
\* compute queue. from_iter and the flush can fail (`?`).
InitializeVerticesSubmit ==
    /\ Running /\ pc = "idle" /\ ~device_lost /\ builds < MaxParticleBuilds
    /\ \/ /\ particles_result' = [call |-> "reset", result |-> "Err"]
          /\ UNCHANGED <<pc, gpu_queue>>
       \/ /\ gpu_queue' = Append(gpu_queue,
                                 [op |-> "upload",
                                  frame |-> [swapchain |-> 0, image |-> 0],
                                  buffer |-> builds + 1])
          /\ particles_result' = NoResult
          /\ pc' = "upload_wait"
    /\ builds' = builds + 1
    /\ render_result' = "none"
    /\ last_rebuild' = NoRebuild
    /\ UNCHANGED <<fvars, particles, commands, window_size, surface_lost,
                   device_lost, display, pipeline, visible, gen, handler,
                   control_flow, frame, inflight, frame_log, failed, exit_cause,
                   log, exit_code>>

\* A mutant of UploadFenceObserved: the buffer is returned without the fence.
UploadFenceNotAwaited == TRUE

\* .wait(None) in initialize_vertices returns Ok once the fence that follows
\* the upload is signalled.
UploadFenceObserved == gpu_queue = <<>>

\* Particles::initialize_vertices, .wait(None)? and Ok(Arc::new(buffer)),
\* and the rest of reset_vertices, which stores the returned buffer.
InitializeVerticesWait ==
    /\ Running /\ pc = "upload_wait"
    /\ \/ /\ UploadFenceObserved
          /\ \E penv \in {e \in ParticleEnvs : e.fail /= "vertices"} :
               LET r == reset_vertices(particles, display, builds, penv)
               IN  /\ particles' = r.self
                   /\ particles_result' = [call |-> "reset", result |-> r.result]
          /\ UNCHANGED <<gpu_queue, device_lost, inflight>>
       \/ /\ gpu_queue /= <<>>
          /\ particles_result' = [call |-> "reset", result |-> "Err"]
          /\ device_lost' = TRUE
          /\ gpu_queue' = <<>>
          /\ inflight' = {}
          /\ UNCHANGED particles
    /\ pc' = "idle"
    /\ UNCHANGED <<fvars, builds, commands, window_size, surface_lost, display,
                   pipeline, visible, gen, handler, control_flow, frame,
                   render_result, frame_log, failed, last_rebuild, exit_cause, log,
                   exit_code>>

\* Display::rebuild_swapchain, called by the frame driver; `size` is the
\* window's inner size at the call, whatever it was resized to since.
DisplayRebuild ==
    /\ Running /\ pc = "idle" /\ ~device_lost /\ gen < MaxRebuilds
    /\ \E env \in BuildEnvs, size \in Sizes :
        /\ env.count >= display.swapchain.num_images
        /\ LET d == rebuild_swapchain(display, gen + 1, size, surface_lost, env)
           IN  /\ gen' = gen + 1
               /\ window_size' = size
               /\ last_rebuild' = [result |-> d.result, error |-> d.error]
               /\ IF d.result = "Panic"
                  THEN /\ Exits("101")
                       /\ UNCHANGED display
                  ELSE /\ display' = d.self
                       /\ UNCHANGED <<pc, exit_code>>
    /\ render_result' = "none"
    /\ particles_result' = NoResult
    /\ UNCHANGED <<fvars, particles, builds, commands, surface_lost, device_lost,
                   pipeline, visible, handler, control_flow, frame, gpu_queue,
                   inflight, frame_log, failed, exit_cause, log>>

\* ----------------------------------------------- Display::render

\* Display::render returns Err: the frame is dropped.
DisplayRenderFails ==
    /\ render_result' = "Err"
    /\ frame' = NoFrame
    /\ frame_log' = <<>>
    /\ commands' = NoCommands
    /\ pc' = "idle"

\* Display::render(subbuffers), with the command buffer Particles::draw
\* recorded for this frame: acquire_next_image(swapchain, None)?
DisplayRenderAcquire ==
    /\ Running /\ pc = "idle" /\ ~device_lost
    /\ \/ /\ DisplayRenderFails
          /\ UNCHANGED inflight
       \/ /\ ~surface_lost
          /\ \E i \in AvailableImages, sub \in BOOLEAN :
               /\ frame' = [NoFrame EXCEPT !.image_index = i, !.suboptimal = sub,
                                           !.swapchain = display.swapchain.id,
                                           !.after_tick = particles_result = TickOk]
               /\ inflight' = inflight \cup
                                {[swapchain |-> display.swapchain.id, image |-> i]}
          /\ commands' = particles_draw(particles, display.render_pass)
          /\ frame_log' = <<"acquired">>
          /\ render_result' = "none"
          /\ pc' = "d_build"
    /\ particles_result' = NoResult
    /\ last_rebuild' = NoRebuild
    /\ UNCHANGED <<fvars, particles, builds, window_size, surface_lost, device_lost,
                   display, pipeline, visible, gen, handler, control_flow,
                   gpu_queue, failed, exit_cause, log, exit_code>>

\* build_render_pass_command_buffer(subbuffers, image_index)?: the indexing
\* of framebuffer_images panics when out of range, every other failure is
\* returned; the secondary command buffers are moved into the result.
DisplayRenderBuild ==
    /\ Running /\ pc = "d_build"
    /\ IF frame.image_index + 1 > Len(display.framebuffer_images)
       THEN /\ Exits("101")
            /\ UNCHANGED <<frame, frame_log, render_result, inflight, commands>>
       ELSE \/ /\ DisplayRenderFails
               /\ inflight' = inflight \ {FrameKey}
               /\ UNCHANGED exit_code
            \/ /\ LET fb == display.framebuffer_images[frame.image_index + 1]
                  IN  frame' = [frame EXCEPT
                                   !.fb_render_pass = fb.render_pass,
                                   !.fb_image = fb.image.index,
                                   !.pipeline_render_pass = commands.render_pass,
                                   !.reads = commands.buffer]
               /\ commands' = NoCommands
               /\ frame_log' = Append(frame_log, "recorded")
               /\ pc' = "d_execute"
               /\ UNCHANGED <<render_result, inflight, exit_code>>
    /\ UNCHANGED <<fvars, particles, builds, particles_result, window_size, surface_lost,
                   device_lost, display, pipeline, visible, gen, handler,
                   control_flow, gpu_queue, failed, last_rebuild, exit_cause, log>>

\* .then_execute(graphics_queue, render_buffer)?
\* .then_swapchain_present(..).then_signal_fence_and_flush()?
DisplayRenderFlush ==
    /\ Running /\ pc = "d_execute"
    /\ \/ /\ DisplayRenderFails
          /\ inflight' = inflight \ {FrameKey}
          /\ UNCHANGED gpu_queue
       \/ /\ ~device_lost /\ ~surface_lost
          /\ gpu_queue' = gpu_queue \o FrameWork
          /\ frame_log' = Append(frame_log, "submitted")
          /\ pc' = "d_wait"
          /\ UNCHANGED <<render_result, frame, inflight, commands>>
    /\ UNCHANGED <<fvars, particles, builds, particles_result, window_size, surface_lost,
                   device_lost, display, pipeline, visible, gen, handler,
                   control_flow, failed, last_rebuild, exit_cause, log, exit_code>>

\* A mutant of swapchain_state: the suboptimal report is dropped.
swapchain_state_always_optimal(suboptimal) == "Optimal"

\* if suboptimal { Ok(NeedsRebuild) } else { Ok(Optimal) }
swapchain_state(suboptimal) == IF suboptimal THEN "NeedsRebuild" ELSE "Optimal"

\* A mutant of DisplayFenceObserved: render returns without the fence.
DisplayFenceNotAwaited == TRUE

\* .wait(None) in Display::render returns Ok once the fence is signalled.
DisplayFenceObserved == gpu_queue = <<>>

\* .wait(None)?, then the swapchain state is returned.
DisplayRenderWait ==
    /\ Running /\ pc = "d_wait"
    /\ \/ /\ DisplayFenceObserved
          /\ render_result' = swapchain_state(frame.suboptimal)
          /\ frame' = NoFrame
          /\ frame_log' = <<>>
          /\ pc' = "idle"
          /\ UNCHANGED <<gpu_queue, inflight, device_lost, commands>>
       \/ /\ gpu_queue /= <<>>
          /\ DisplayRenderFails
          /\ device_lost' = TRUE
          /\ gpu_queue' = <<>>
          /\ inflight' = {}
    /\ UNCHANGED <<fvars, particles, builds, particles_result, window_size, surface_lost,
                   display, pipeline, visible, gen, handler, control_flow, failed,
                   last_rebuild, exit_cause, log, exit_code>>

Next ==
    \/ Initialize
    \/ MainLoopBegin
    \/ RenderAcquire
    \/ RenderBuild
    \/ RenderExecute
    \/ RenderPresentFlush
    \/ RenderWait
    \/ RenderPost
    \/ FirstFrameDone
    \/ EvCloseRequested
    \/ EvResized
    \/ EvOther
    \/ EvMainEventsCleared
    \/ MainEventsClearedDone
    \/ LoopIterEnd
    \/ GpuStep
    \/ EnvResize
    \/ EnvSurfaceLost
    \/ ParticlesInitialize
    \/ ParticlesTickSubmit
    \/ ParticlesTickWait
    \/ ParticlesRebuild
    \/ ParticlesReset
    \/ DisplayRebuild
    \/ DisplayRenderAcquire
    \/ DisplayRenderBuild
    \/ DisplayRenderFlush
    \/ DisplayRenderWait

Spec == Init /\ [][Next]_vars

\* The particle stage with the vertex upload of reset_vertices taken step
\* by step: the upload is submitted, the GPU works, the fence is awaited.
UploadNext ==
    \/ ParticlesInitialize
    \/ GpuStep
    \/ ParticlesTickSubmit
    \/ ParticlesTickWait
    \/ InitializeVerticesSubmit
    \/ InitializeVerticesWait

UploadSpec == Init /\ [][UploadNext]_vars

\* Particles::rebuild_swapchain_resources, called by the frame driver after
\* a resize; the extent of each successful call is remembered.
ParticlesRebuildAt ==
    /\ Running /\ pc = "idle" /\ ~device_lost
    /\ Len(extents) < MaxResizes /\ builds <= MaxParticleBuilds
    /\ \E penv \in ParticleEnvs :
         LET r == particles_rebuild_swapchain_resources(
                      particles, display, builds + 1, penv)
         IN  /\ particles' = r.self
             /\ particles_result' = [call |-> "rebuild", result |-> r.result]
             /\ extents' = IF r.result = "Ok"
                           THEN Append(extents, display.swapchain.dimensions)
                           ELSE extents
    /\ builds' = builds + 1
    /\ render_result' = "none"
    /\ last_rebuild' = NoRebuild
    /\ UNCHANGED <<svars, kvars, qvars, commands, window_size, surface_lost, device_lost,
                   display, pipeline, visible, gen, pc, handler, control_flow, frame,
                   gpu_queue, inflight, frame_log, failed, exit_cause, log,
                   exit_code>>

\* The swapchain choices on their own: the capabilities of every surface
\* kind at every window size, and a window size of its own.
SelectionInit ==
    /\ window_size = MinExtent
    /\ ProgramIdle
    /\ NoSimulation
    /\ NoQueues
    /\ extents = <<>>
    /\ arg_capabilities \in {Capabilities(k, size) : k \in SurfaceKinds, size \in Sizes}
    /\ arg_physical_size \in (0..MaxDim) \X (0..MaxDim)
    /\ chosen = NoChoice

ChooseSwapExtent ==
    /\ chosen.extent = NoChoice.extent
    /\ chosen' = [chosen EXCEPT !.extent =
                     choose_swap_extent(arg_physical_size, arg_capabilities)]
    /\ UNCHANGED <<window_size, surface_lost, device_lost, display, pipeline, pvars,
                   visible, gen, pc, handler, control_flow, frame, render_result,
                   gpu_queue, inflight, frame_log, failed, last_rebuild, exit_cause,
                   log, exit_code, arg_capabilities, arg_physical_size, kvars, qvars,
                   extents>>

ChooseImageCount ==
    /\ chosen.image_count = NoChoice.image_count
    /\ chosen' = [chosen EXCEPT !.image_count = choose_image_count(arg_capabilities)]
    /\ UNCHANGED <<window_size, surface_lost, device_lost, display, pipeline, pvars,
                   visible, gen, pc, handler, control_flow, frame, render_result,
                   gpu_queue, inflight, frame_log, failed, last_rebuild, exit_cause,
                   log, exit_code, arg_capabilities, arg_physical_size, kvars, qvars,
                   extents>>

SelectionNext == ChooseSwapExtent \/ ChooseImageCount

SelectionSpec == SelectionInit /\ [][SelectionNext]_vars

\* The particle stage under resizes: the display is rebuilt at any window
\* size, the particle stage is rebuilt after it.
ResizeNext ==
    \/ ParticlesInitialize
    \/ DisplayRebuild
    \/ ParticlesRebuildAt

ResizeSpec == Init /\ [][ResizeNext]_vars

\* One vertex of the buffer under the compute shader, one host Particle
\* under integrate: the inputs are drawn here and by each step.
Vec(x, y) == <<(<<x, 1>>), (<<y, 1>>)>>

\* Inside the box, on its edges and outside it.
InputPositions == {Vec(x, y) : x \in {-3, 0, 2}, y \in {-2, 0, 1}}

\* At rest, slow, at MAX_VEL exactly, and above it, along an axis or not.
InputVelocities ==
    {Vec(0, 0), Vec(1, 0), Vec(3, 4), Vec(-5, 0),
     Vec(10, 0), Vec(0, -10), Vec(6, 8)}

InputAccelerations == {Vec(0, 0), Vec(2, 0), Vec(0, -20), Vec(6, 8)}

\* The centre, a point of the right edge, and the corner of the box.
InputAttractors == {Vec(0, 0), Vec(2, 0), Vec(2, 1)}

InputTimesteps == {<<1, 2>>, <<1, 1>>}

InputPushConstants ==
    [enabled : BOOLEAN, attractor : InputAttractors, timestep : InputTimesteps]

\* The vectors whose components have a common denominator within bound.
Small(v, bound) ==
    IF IsNaN(v[1]) \/ IsNaN(v[2]) THEN TRUE
    ELSE (v[1][2] \div Gcd(v[1][2], v[2][2])) * v[2][2] <= bound

\* The vectors whose magnitude this arithmetic compares with MAX_VEL.
Measurable(v) == IF ExactLength(v) THEN TRUE ELSE Small(v, MaxMeasured)

\* The dispatches this arithmetic expresses: a vertex with small
\* denominators, exact lengths where normalize is called, and a velocity
\* whose magnitude can be compared afterwards.
ExpressibleTick(v, push, build) ==
    /\ Small(v.pos, MaxDenominator) /\ Small(v.vel, MaxDenominator)
    /\ push.enabled => ExactLength(VSub(push.attractor, v.pos))
    /\ Small(attract(v, push, build), MaxMeasured)
    /\ LET vel == attract(v, push, build)
       IN  Gt(dot(vel, vel), Mul(MAX_VEL, MAX_VEL)) => ExactLength(vel)
    /\ Measurable(main(v, push, build).vel)

\* The integrate calls this arithmetic expresses.
ExpressibleIntegrate(p, time) ==
    /\ Small(p.pos, MaxDenominator) /\ Small(p.vel, MaxDenominator)
    /\ ExactLength(VAdd(p.vel, VScale(p.acc, time)))

KinematicInit ==
    /\ window_size = MinExtent
    /\ ProgramIdle
    /\ NoSelection
    /\ NoQueues
    /\ extents = <<>>
    /\ ticks = 0
    /\ push_constants = NoPushConstants
    /\ vertex_before = NoVertex
    /\ \/ /\ simulated = "vertex"
          /\ shader_build \in ShaderBuilds
          /\ vertex \in [pos : InputPositions, vel : InputVelocities]
          /\ particle = NoParticle
       \/ /\ simulated = "particle"
          /\ shader_build = [normalize_zero |-> "NaN", clamp_nan |-> "NaN"]
          /\ vertex = NoVertex
          /\ particle \in [pos : InputPositions, vel : InputVelocities,
                            acc : InputAccelerations, lifetime : {Zero}]

\* One compute dispatch, seen from one invocation of main.
ComputeTick ==
    /\ simulated = "vertex" /\ ticks < MaxTicks
    /\ \E push \in InputPushConstants :
        /\ ExpressibleTick(vertex, push, shader_build)
        /\ push_constants' = push
        /\ vertex_before' = vertex
        /\ vertex' = main(vertex, push, shader_build)
    /\ ticks' = ticks + 1
    /\ UNCHANGED <<window_size, surface_lost, device_lost, display, pipeline, pvars,
                   visible, gen, pc, handler, control_flow, frame, render_result,
                   gpu_queue, inflight, frame_log, failed, last_rebuild, exit_cause,
                   log, exit_code, svars, qvars, extents, simulated, shader_build,
                   particle>>

\* One call of Particle::integrate.
Integrate ==
    /\ simulated = "particle" /\ ticks < MaxTicks
    /\ \E time \in InputTimesteps :
        /\ ExpressibleIntegrate(particle, time)
        /\ particle' = integrate(particle, time)
    /\ ticks' = ticks + 1
    /\ UNCHANGED <<window_size, surface_lost, device_lost, display, pipeline, pvars,
                   visible, gen, pc, handler, control_flow, frame, render_result,
                   gpu_queue, inflight, frame_log, failed, last_rebuild, exit_cause,
                   log, exit_code, svars, qvars, extents, simulated, shader_build,
                   push_constants, vertex_before, vertex>>

KinematicNext == ComputeTick \/ Integrate

KinematicSpec == KinematicInit /\ [][KinematicNext]_vars

\* The queues of a device and the sharing mode of its swapchain: either a
\* physical device is given and create_logical_device takes the queues, or
\* two queues are given, of any family and any index within it.
Queues == [family : 0..(MaxFamilies - 1), id_within_family : 0..(MaxQueues - 1)]

SharingInit ==
    /\ window_size = MinExtent
    /\ ProgramIdle
    /\ NoSelection
    /\ NoSimulation
    /\ extents = <<>>
    /\ sharing_mode = NoSharingMode
    /\ \/ /\ arg_device \in PhysicalDevices
          /\ arg_graphics_queue = NoQueue
          /\ arg_present_queue = NoQueue
       \/ /\ arg_device = <<>>
          /\ arg_graphics_queue \in Queues
          /\ arg_present_queue \in Queues

\* create_logical_device on the picked physical device; a device without
\* the required families is not picked.
CreateLogicalDevice ==
    /\ arg_device /= <<>> /\ arg_graphics_queue = NoQueue
    /\ LET made == create_logical_device(arg_device)
       IN  /\ made.result = "Ok"
           /\ arg_graphics_queue' = made.graphics_queue
           /\ arg_present_queue' = made.present_queue
    /\ UNCHANGED <<window_size, surface_lost, device_lost, display, pipeline, pvars,
                   visible, gen, pc, handler, control_flow, frame, render_result,
                   gpu_queue, inflight, frame_log, failed, last_rebuild, exit_cause,
                   log, exit_code, svars, kvars, extents, arg_device, sharing_mode>>

\* create_swap_chain: choose_sharing_mode(graphics_queue, present_queue)
ChooseSharingMode ==
    /\ arg_graphics_queue /= NoQueue /\ sharing_mode = NoSharingMode
    /\ sharing_mode' = choose_sharing_mode(arg_graphics_queue, arg_present_queue)
    /\ UNCHANGED <<window_size, surface_lost, device_lost, display, pipeline, pvars,
                   visible, gen, pc, handler, control_flow, frame, render_result,
                   gpu_queue, inflight, frame_log, failed, last_rebuild, exit_cause,
                   log, exit_code, svars, kvars, extents, arg_device,
                   arg_graphics_queue, arg_present_queue>>

SharingNext == CreateLogicalDevice \/ ChooseSharingMode

SharingSpec == SharingInit /\ [][SharingNext]_vars

\* ------------------------------------------------------------ claims

Range(q) == {q[i] : i \in 1..Len(q)}

\* A step that calls Display::rebuild_swapchain: each call takes the next
\* build number, and the first one is taken by Display::create.
RebuildCall == gen' = gen + 1 /\ gen >= 1

\* C1: in every state reached by Display::create followed by any sequence
\* of rebuild_swapchain calls (successful or failing, at the same or at
\* different window sizes), framebuffer_images has as many framebuffers as
\* swapchain_images has images, which is the image count of the current
\* swapchain, and those images are the current swapchain's.
FramebufferCountMatchesImages ==
    /\ Len(display.framebuffer_images) = Len(display.swapchain_images)
    /\ Len(display.swapchain_images) = display.swapchain.num_images
    /\ \A i \in 1..Len(display.swapchain_images) :
         display.swapchain_images[i].swapchain = display.swapchain.id

\* C1 witness: the display after a second rebuild that succeeded, holding
\* more than one image.
SecondRebuildDone ==
    /\ display.swapchain.id >= 3
    /\ last_rebuild.result = "Ok"
    /\ Len(display.framebuffer_images) >= 2

\* The framebuffers are those of the current render pass and of the
\* current swapchain images, one per image and in the images' order.
FramebuffersAreCurrent ==
    /\ Len(display.framebuffer_images) = Len(display.swapchain_images)
    /\ \A i \in 1..Len(display.framebuffer_images) :
         /\ display.framebuffer_images[i].render_pass = display.render_pass.id
         /\ display.framebuffer_images[i].image = display.swapchain_images[i]

\* C2: rebuild_swapchain is all-or-nothing.  A call that returns an error
\* (or panics) leaves swapchain, swapchain_images, render_pass and
\* framebuffer_images as they were; a call that returns Ok replaces all
\* four by values built in that call; so the framebuffers always reference
\* the current render pass and the current swapchain images.
RebuildIsAllOrNothing ==
    /\ []FramebuffersAreCurrent
    /\ [][RebuildCall =>
            /\ last_rebuild'.result /= "Ok" => display' = display
            /\ last_rebuild'.result = "Ok" =>
                 /\ display'.swapchain.id = gen'
                 /\ display'.render_pass.id = gen'
                 /\ \A i \in 1..Len(display'.swapchain_images) :
                      display'.swapchain_images[i].swapchain = gen'
                 /\ \A i \in 1..Len(display'.framebuffer_images) :
                      /\ display'.framebuffer_images[i].render_pass = gen'
                      /\ display'.framebuffer_images[i].image.swapchain = gen']_vars

\* C2 witness: a rebuild has succeeded and a later one has failed, and the
\* display is still the one the successful call built.
FailedRebuildAfterSuccess ==
    /\ gen >= 3
    /\ last_rebuild.result = "Err"
    /\ display.swapchain.id = 2
    /\ display.render_pass.id = 2

\* C3 (as claimed): whatever the window size, rebuild_swapchain returns Ok
\* unless the surface has been destroyed, and it never panics.  Failures
\* of the device itself (out of memory, device lost) are left aside for
\* the error case, not for the panic.
RebuildSucceedsUnlessSurfaceLost ==
    /\ last_rebuild.result /= "Panic"
    /\ last_rebuild.result = "Err" =>
         last_rebuild.error \in {"surface lost", "device error"}

\* C4 (as claimed): once any step of the main loop has failed, in the
\* resize handler or in render, the callback has set ControlFlow::Exit and
\* logged the error by the time it returns.
EveryFailureStopsTheLoop ==
    (pc \in {"events", "iter_end"} /\ failed /= {}) =>
        /\ control_flow = "Exit"
        /\ log /= {}

\* C5 (as claimed): the exit code is 0 when the loop ends on a close
\* request and non-zero, with the error logged, when it ends on a failure,
\* also one inside the running event loop.
ExitCodeReflectsOutcome ==
    pc = "exited" =>
        /\ (exit_cause = "failure" \/ log /= {}) => exit_code /= "0"
        /\ exit_code = "0" => exit_cause = "close"
        /\ exit_code \in {"1"} => log /= {}

\* The trace of a frame of Application::render that ended in a rebuild.
PresentedThenRebuilt ==
    <<"acquired", "recorded", "submitted", "executed", "presented", "waited",
      "rebuilt">>

\* The trace of a frame of Display::render when the fence has been observed.
PresentedFrame == <<"acquired", "recorded", "submitted", "executed", "presented">>

\* C6: a frame whose acquire reported suboptimal is recorded, submitted and
\* presented on the swapchain it was acquired from, and the rebuild comes
\* only after that frame's present and fence wait; a frame whose acquire
\* did not report suboptimal is followed by no rebuild; Display::render
\* never rebuilds, and returns NeedsRebuild exactly when acquire reported
\* suboptimal.
RebuildOnlyAfterSuboptimalFramePresented ==
    /\ []("rebuilt" \in Range(frame_log) =>
             /\ frame.suboptimal
             /\ frame_log = PresentedThenRebuilt)
    /\ [](\A i \in 1..Len(gpu_queue) :
             gpu_queue[i].op = "present" =>
                 gpu_queue[i].frame.swapchain = display.swapchain.id)
    /\ [][(pc \in {"acquire", "build", "execute", "present", "wait", "post"}
           /\ display' /= display) =>
              /\ pc = "post"
              /\ frame.suboptimal
              /\ gpu_queue = <<>>
              /\ "presented" \in Range(frame_log)
              /\ "waited" \in Range(frame_log)]_vars
    /\ [][(pc = "post" /\ ~frame.suboptimal) =>
              /\ gen' = gen
              /\ display' = display
              /\ pipeline' = pipeline
              /\ render_result' = "Ok"]_vars
    /\ [][(pc \in {"d_build", "d_execute", "d_wait"}) =>
              /\ display' = display
              /\ gen' = gen]_vars
    /\ [][(pc = "d_wait" /\ render_result' \in {"Optimal", "NeedsRebuild"}) =>
              /\ render_result' = "NeedsRebuild" <=> frame.suboptimal
              /\ frame_log = PresentedFrame]_vars

\* C6 witness: a suboptimal frame has been presented and waited for, and
\* the rebuild that followed it has replaced the swapchain.
SuboptimalFrameRebuilt ==
    /\ frame.suboptimal
    /\ frame_log = PresentedThenRebuilt
    /\ last_rebuild.result = "Ok"
    /\ display.swapchain.id > frame.swapchain

\* C7 (as claimed): after every successful rebuild_swapchain_resources
\* the pipeline was built for the display's current render pass and
\* swapchain dimensions, and no frame is recorded with a pipeline built
\* for another render pass than the framebuffer's.
PipelineFollowsRenderPass ==
    /\ (pipeline /= NoPipeline /\ "pipeline rebuild" \notin failed) =>
         /\ pipeline.render_pass = display.render_pass.id
         /\ pipeline.extent = display.swapchain.dimensions
    /\ "recorded" \in Range(frame_log) =>
         frame.pipeline_render_pass = frame.fb_render_pass

\* C8: Particles::tick returns Ok only once its dispatch has completed on
\* the GPU, so no command buffer submitted for execution is queued behind
\* a dispatch still writing the buffer it reads.
TickCompletesBeforeGraphicsRead ==
    /\ particles_result = TickOk =>
         \A i \in 1..Len(gpu_queue) : gpu_queue[i].op /= "compute"
    /\ \A i, j \in 1..Len(gpu_queue) :
         (i < j /\ gpu_queue[i].op = "compute" /\ gpu_queue[j].op = "execute") =>
             gpu_queue[i].buffer /= gpu_queue[j].buffer

\* C8 witness: a frame submitted right after a tick returned Ok reads the
\* buffer that tick wrote.
FrameReadsTickedBuffer ==
    /\ pc = "d_wait"
    /\ frame.after_tick
    /\ \E i \in 1..Len(gpu_queue) :
         /\ gpu_queue[i].op = "execute"
         /\ gpu_queue[i].buffer = particles.compute_descriptor_set.buffer

\* C9: at most one frame is between acquire and present completion, and
\* when render has returned Ok its frame has been presented and nothing
\* is left in flight, also with rebuilds between the render calls.
OneFrameInFlight ==
    /\ Cardinality(inflight) <= 1
    /\ \A i, j \in 1..Len(gpu_queue) :
         (i < j /\ gpu_queue[i].op = "present" /\ gpu_queue[j].op = "present") =>
             gpu_queue[i].frame.image /= gpu_queue[j].frame.image
    /\ render_result \in {"Ok", "Optimal", "NeedsRebuild"} =>
         /\ inflight = {}
         /\ gpu_queue = <<>>

\* C9 witness: after a rebuild, a frame on another image index than the
\* first is in flight, its present not yet completed.
FrameInFlightAfterRebuild ==
    /\ gen >= 2
    /\ \E k \in inflight : k.swapchain >= 2 /\ k.image >= 1
    /\ \E i \in 1..Len(gpu_queue) : gpu_queue[i].op = "present"

\* C10 (as claimed): after reset_vertices has returned, Ok or Err, the
\* vertex buffer, the graphics descriptor set and the compute descriptor
\* set reference the same buffer.
ResetIsAtomic ==
    particles_result.call = "reset" =>
        /\ particles.descriptor_set.buffer = particles.vertex_buffer
        /\ particles.compute_descriptor_set.buffer = particles.vertex_buffer

\* C11: whenever initialize_vertices has returned a buffer (reset_vertices
\* stores it at once in vertex_buffer), no upload of that buffer is still
\* outstanding on the GPU: the fence was signalled and the wait returned.
UploadCompleteOnReturn ==
    \A i \in 1..Len(gpu_queue) :
        gpu_queue[i].op = "upload" =>
            gpu_queue[i].buffer /= particles.vertex_buffer

\* C11 witness: reset_vertices has returned Ok with a buffer uploaded after
\* the first one.
UploadedBufferReturned ==
    /\ particles_result = [call |-> "reset", result |-> "Ok"]
    /\ particles.vertex_buffer >= 2
    /\ pc = "idle"

\* |v| <= MAX_VEL, by the length where it is exact and by the dot product
\* otherwise; false for a NaN.
WithinMaxVel(v) ==
    IF ExactLength(v) THEN Le(length(v), MAX_VEL)
    ELSE Le(dot(v, v), Mul(MAX_VEL, MAX_VEL))

\* C12 (as claimed): after any number of compute ticks, whatever the
\* initial velocity, the attractor, the timestep and the enabled flag, the
\* vertex's velocity has magnitude at most MAX_VEL, and so has a Particle's
\* after every integrate.
VelocityWithinMaxVel ==
    /\ (simulated = "vertex" /\ ticks > 0) => WithinMaxVel(vertex.vel)
    /\ (simulated = "particle" /\ ticks > 0) => WithinMaxVel(particle.vel)

\* lower <= x <= upper; false for a NaN.
Within(x, lower, upper) == Le(lower, x) /\ Le(x, upper)

\* C13 (as claimed): after any compute tick the vertex's position is inside
\* [-2,2] x [-1,1], a Particle's after integrate inside [-2,2] x [-2,2],
\* and a vertex on the right edge that moves outward stays on that edge.
PositionInsideBox ==
    /\ (simulated = "vertex" /\ ticks > 0) =>
          /\ Within(vertex.pos[1], <<-2, 1>>, <<2, 1>>)
          /\ Within(vertex.pos[2], <<-1, 1>>, <<1, 1>>)
          /\ (vertex_before.pos[1] = <<2, 1>> /\ Gt(vertex.vel[1], Zero)) =>
                vertex.pos[1] = <<2, 1>>
    /\ (simulated = "particle" /\ ticks > 0) =>
          /\ Within(particle.pos[1], <<-2, 1>>, <<2, 1>>)
          /\ Within(particle.pos[2], <<-2, 1>>, <<2, 1>>)

\* The tick as the five steps in their order: attraction if enabled, the
\* velocity rescaled to MAX_VEL when longer, damping, the position advanced
\* by the damped velocity, the position clamped per axis.
ReferenceTick(v, push, build) ==
    LET attracted == IF push.enabled
                     THEN LET diff == VSub(push.attractor, v.pos)
                          IN  VAdd(v.vel,
                                   VScale(VDiv(normalize(diff, build),
                                               Add(dot(diff, diff), eps)),
                                          push.timestep))
                     ELSE v.vel
        clamped == IF Gt(length(attracted), MAX_VEL)
                   THEN VScale(attracted, Div(MAX_VEL, length(attracted)))
                   ELSE attracted
        damped == VScale(clamped, damping)
        advanced == VAdd(v.pos, VScale(damped, push.timestep))
    IN  [pos |-> <<glsl_clamp(advanced[1], <<-2, 1>>, <<2, 1>>, build),
                   glsl_clamp(advanced[2], <<-1, 1>>, <<1, 1>>, build)>>,
         vel |-> damped]

\* C17: the vertex a compute tick writes back is the one the five steps
\* give in their order, for every vertex and every push constants.
TickFollowsReference ==
    (simulated = "vertex" /\ ticks > 0) =>
        vertex = ReferenceTick(vertex_before, push_constants, shader_build)

\* C17 witness: a tick with attraction enabled on a vertex faster than
\* MAX_VEL, which ends clamped on the right edge of the box.
FastVertexAttractedAndClamped ==
    /\ simulated = "vertex" /\ ticks > 0
    /\ push_constants.enabled
    /\ push_constants.attractor /= vertex_before.pos
    /\ ~WithinMaxVel(vertex_before.vel)
    /\ vertex.pos[1] = <<2, 1>>
    /\ WithinMaxVel(vertex.vel)

\* The orthographic projection computed directly for an extent: the x
\* entry is 2 / world_width = height / width, the y entry is -1.
DirectProjection(extent) == [x |-> Frac(extent[2], extent[1]), y |-> -1]

\* C14: after a successful rebuild_swapchain_resources the projection bound
\* is the one computed directly for the swapchain's extent at that call,
\* whatever extents the stage was rebuilt at before.
ProjectionDependsOnExtentOnly ==
    particles_result = [call |-> "rebuild", result |-> "Ok"] =>
        /\ extents /= <<>>
        /\ extents[Len(extents)] = display.swapchain.dimensions
        /\ particles.descriptor_set.projection =
               DirectProjection(extents[Len(extents)])

\* C14 witness: the stage was rebuilt at an extent, then at another one of
\* another aspect, then at the first extent again.
RebuiltAtFirstExtentAgain ==
    /\ particles_result = [call |-> "rebuild", result |-> "Ok"]
    /\ Len(extents) = 3
    /\ extents[1] = extents[3]
    /\ DirectProjection(extents[2]) /= DirectProjection(extents[3])

\* C15: choose_swap_extent returns the surface's current extent whenever
\* one is reported; otherwise it returns the window's size clamped per
\* axis, which lies between the minimum and the maximum extent.
ExtentReportedOrClamped ==
    chosen.extent /= NoChoice.extent =>
        IF IsSome(arg_capabilities.current_extent)
        THEN chosen.extent = Unwrap(arg_capabilities.current_extent)
        ELSE \A axis \in 1..2 :
                LET lower == arg_capabilities.min_image_extent[axis]
                    upper == arg_capabilities.max_image_extent[axis]
                    x == arg_physical_size[axis]
                IN  /\ lower <= chosen.extent[axis]
                    /\ chosen.extent[axis] <= upper
                    /\ (lower <= x /\ x <= upper) => chosen.extent[axis] = x
                    /\ x < lower => chosen.extent[axis] = lower
                    /\ x > upper => chosen.extent[axis] = upper

\* C15 witness: no extent is reported and the window is too narrow and too
\* tall; the extent chosen is the minimum width and the maximum height.
WindowClampedOnBothAxes ==
    /\ ~IsSome(arg_capabilities.current_extent)
    /\ arg_physical_size[1] < arg_capabilities.min_image_extent[1]
    /\ arg_physical_size[2] > arg_capabilities.max_image_extent[2]
    /\ chosen.extent = <<arg_capabilities.min_image_extent[1],
                          arg_capabilities.max_image_extent[2]>>

\* C16: choose_image_count returns min_image_count + 1 when no maximum is
\* reported and the smaller of min_image_count + 1 and the maximum when
\* one is; it never exceeds a reported maximum.
ImageCountIsMinPlusOneCapped ==
    chosen.image_count /= NoChoice.image_count =>
        LET suggested == arg_capabilities.min_image_count + 1
        IN  IF IsSome(arg_capabilities.max_image_count)
            THEN /\ chosen.image_count <= Unwrap(arg_capabilities.max_image_count)
                 /\ chosen.image_count <= suggested
                 /\ \/ chosen.image_count = suggested
                    \/ chosen.image_count = Unwrap(arg_capabilities.max_image_count)
            ELSE chosen.image_count = suggested

\* C16 witness: min_image_count + 1 is above the reported maximum, and the
\* maximum is what is chosen.
ImageCountCapped ==
    /\ IsSome(arg_capabilities.max_image_count)
    /\ arg_capabilities.min_image_count + 1 > Unwrap(arg_capabilities.max_image_count)
    /\ chosen.image_count = Unwrap(arg_capabilities.max_image_count)

\* The steps of one frame in their order; the last one only after a
\* suboptimal frame.
FrameOrder ==
    <<"acquired", "recorded", "submitted", "executed", "presented", "waited",
      "rebuilt">>

\* C18: in every render the steps happen in the order acquire, execute,
\* present, wait, none skipped: the frame's log is a prefix of that order,
\* on the queue a frame's execution is ahead of its present, and render
\* has returned a success only with the frame's work completed.
FrameStepsInOrder ==
    /\ Len(frame_log) <= Len(FrameOrder)
    /\ \A i \in 1..Len(frame_log) : frame_log[i] = FrameOrder[i]
    /\ \A i, j \in 1..Len(gpu_queue) :
         (gpu_queue[i].op = "present" /\ gpu_queue[j].op = "execute"
             /\ gpu_queue[i].frame = gpu_queue[j].frame) => j < i
    /\ (pc = "render_done" /\ render_result = "Ok") =>
         /\ Len(frame_log) >= 6
         /\ \A i \in 1..Len(gpu_queue) : gpu_queue[i].op \notin {"execute", "present"}
    /\ render_result \in {"Optimal", "NeedsRebuild"} =>
         \A i \in 1..Len(gpu_queue) : gpu_queue[i].op \notin {"execute", "present"}

\* C18 witness: a frame rendered on a rebuilt swapchain has gone through
\* acquire, execute, present and wait.
FrameWaitedAfterRebuild ==
    /\ Len(frame_log) >= 6
    /\ frame_log[6] = "waited"
    /\ frame.swapchain >= 2

\* C19: the window starts invisible; it becomes visible only in the step
\* that follows a first frame rendered and presented with success, and the
\* event loop runs only with the window visible; a failed first render
\* ends the run with the error, the window still invisible.
WindowShownAfterFirstFrame ==
    /\ [](pc \in {"start", "initialized"} => ~visible)
    /\ [](handler = "first" => ~visible)
    /\ [](pc = "events" => visible)
    /\ [][(visible' /= visible) =>
            /\ visible'
            /\ handler = "first" /\ pc = "render_done" /\ render_result = "Ok"
            /\ Len(frame_log) >= 6 /\ frame_log[5] = "presented"
            /\ pc' = "events"]_vars
    /\ [][(handler = "first" /\ pc = "render_done" /\ render_result = "Err") =>
            /\ exit_code' = "1"
            /\ ~visible'
            /\ pc' /= "events"]_vars

\* C19 witness: the first frame was presented and the window is shown, the
\* event loop running.
WindowShown == visible /\ pc = "events"

\* C20: every dispatch on the queue has as many invocations as the buffer
\* it is bound to has vertices, every draw recorded has as many vertices as
\* the buffer it reads, and the two counts are equal: no index at or
\* beyond the capacity is used, also on a buffer of reset_vertices.
CountsMatchCapacity ==
    /\ \A i \in 1..Len(gpu_queue) :
         gpu_queue[i].op = "compute" =>
             /\ gpu_queue[i].buffer >= 1
             /\ gpu_queue[i].invocations = capacity(gpu_queue[i].buffer)
             /\ gpu_queue[i].invocations = draw_vertices
    /\ commands /= NoCommands =>
         /\ commands.buffer >= 1
         /\ commands.vertices = capacity(commands.buffer)

\* C20 witness: a dispatch on a buffer built by reset_vertices is on the
\* queue.
DispatchOnResetBuffer ==
    \E i \in 1..Len(gpu_queue) :
        gpu_queue[i].op = "compute" /\ gpu_queue[i].buffer >= 2

\* C21: in every render call, after any sequence of rebuilds that may
\* change the swapchain's image count, the image index returned by acquire
\* is a valid index into framebuffer_images, the framebuffer at that index
\* holds the acquired image of the acquired swapchain, and the framebuffer
\* recorded into the frame is that one: the indexing never panics.
AcquiredIndexSelectsItsFramebuffer ==
    /\ pc \in {"build", "d_build"} =>
         IF frame.image_index + 1 > Len(display.framebuffer_images)
         THEN FALSE
         ELSE LET fb == display.framebuffer_images[frame.image_index + 1]
              IN  /\ fb.image.index = frame.image_index
                  /\ fb.image.swapchain = frame.swapchain
                  /\ frame.swapchain = display.swapchain.id
    /\ pc \in {"execute", "present", "wait", "post", "d_execute", "d_wait"} =>
         frame.fb_image = frame.image_index

\* C21 witness: a frame recorded on the last image of a swapchain that a
\* rebuild produced, with the highest image count.
LastImageRecordedAfterRebuild ==
    /\ pc \in {"execute", "d_execute"}
    /\ display.swapchain.id >= 2
    /\ display.swapchain.num_images = MaxImages
    /\ frame.image_index = MaxImages - 1
    /\ frame.fb_image = MaxImages - 1

\* C22 (as claimed): once a handler invocation has set the control flow to
\* Exit, no later invocation of the event-loop callback calls render or
\* rebuild_swapchain_resources.
NoCallsAfterExit ==
    [][control_flow = "Exit" =>
          ~(pc = "events" /\ (pc' = "acquire" \/ gen' = gen + 1))]_vars

\* The particle stage exists and its graphics pipeline was built for the
\* display's current swapchain: Particles::new or the latest
\* rebuild_swapchain_resources ran on the display as it is now.
ParticlesBuiltForDisplay ==
    /\ particles.vertex_buffer /= 0
    /\ particles.pipeline.render_pass = display.render_pass.id
    /\ particles.pipeline.extent = display.swapchain.dimensions

\* C23 (as claimed): in every state after Particles::new and after any
\* sequence of rebuild_swapchain_resources calls on the current display,
\* the projection bound to the graphics descriptor set is the orthographic
\* projection of the display's current swapchain dimensions, the state
\* right after construction included.
ProjectionFollowsSwapchain ==
    ParticlesBuiltForDisplay =>
        particles.descriptor_set.projection =
            OrthographicProjection(display.swapchain.dimensions)

\* C24 (as claimed): in every state after rebuild_swapchain_resources
\* returned, Ok or Err, the graphics descriptor set was built from the
\* layout of the pipeline stored in self.pipeline.
DescriptorSetPairedWithPipeline ==
    particles.vertex_buffer /= 0 =>
        particles.descriptor_set.layout = particles.pipeline.id

\* C25 (as claimed): choose_sharing_mode returns Exclusive if and only if
\* the graphics queue and the present queue are the same queue of the same
\* queue family, and for queues of different queue families it returns
\* Concurrent listing both families, whatever the families and the indices
\* within them.
SharingModeFollowsQueueIdentity ==
    sharing_mode /= NoSharingMode =>
        /\ sharing_mode = Exclusive <=> arg_graphics_queue = arg_present_queue
        /\ arg_graphics_queue.family /= arg_present_queue.family =>
              sharing_mode = Concurrent(<<arg_graphics_queue.family,
                                          arg_present_queue.family>>)

====
